---------------------------- MODULE Spec2Model ----------------------------
(***************************************************************************)
(* Model of the Bucardo orchestration service: the reconciliation cycle    *)
(* (Service.ReloadAndRestart and its helpers), the engine it drives        *)
(* through the BucardoExecutor port, and the run-once completion monitor   *)
(* (MonitorAdapter.MonitorSyncs).                                          *)
(***************************************************************************)
EXTENDS Integers, Sequences, FiniteSets, TLC

(***************************************************************************)
(* Bounds of the model.                                                    *)
(***************************************************************************)
\* engine commands that may fail spontaneously in one run
MaxFail == 1
\* reconciliation cycles in one run (the startup cycle, then POST /restart)
MaxCycles == 2
\* log lines the engine writes while the monitor watches
MaxLines == 3
\* calls of LogBroadcaster.Write in one run
MaxWrites == 3
\* administrative calls (UpdateConfig, AddSync, UpdateSync, DeleteSync) in one run
MaxCalls == 2

\* NewLogBroadcaster: the capacity of the broadcast channel
BroadcastCap == 256

\* StopBucardo: shutdownTimeout, in seconds
ShutdownTimeout == 30
\* StopBucardo: the sleep between two looks at the pid file, in seconds
PollInterval == 1
\* the passes of the wait loop that fit before the deadline
ShutdownPolls == ShutdownTimeout \div PollInterval

Procs == {"main", "http"}

\* the goroutines serving administrative requests
Admins == {"h1", "h2"}

(***************************************************************************)
(* Strings.  TLC has no character access, so the few string functions the  *)
(* code applies are tabulated on a catalogue of the strings that occur.    *)
(***************************************************************************)
\* table names, in the lexicographic order sort.Strings uses
TableNames == <<"t1", "t2", "t3">>

\* strings.TrimSpace on the raw entries of a comma-separated table list
TrimSpace(s) ==
  CASE s = " t1" -> "t1"
    [] s = "t1 " -> "t1"
    [] s = " t2" -> "t2"
    [] s = " t3" -> "t3"
    [] OTHER -> s

\* position of a (trimmed) table name in lexicographic order
StrRank(s) == CHOOSE i \in 1..Len(TableNames) : TableNames[i] = s

\* s < t for strings, as sort.Strings compares them
StrLess(s, t) == StrRank(s) < StrRank(t)

RECURSIVE InsertSorted(_, _)
InsertSorted(x, sorted) ==
  IF sorted = <<>> THEN <<x>>
  ELSE IF StrLess(x, Head(sorted)) THEN <<x>> \o sorted
  ELSE <<Head(sorted)>> \o InsertSorted(x, Tail(sorted))

\* sort.Strings: ascending, duplicates kept
RECURSIVE SortStrings(_)
SortStrings(l) ==
  IF l = <<>> THEN <<>> ELSE InsertSorted(Head(l), SortStrings(Tail(l)))

\* the sorted list of a set of table names (no duplicates)
RECURSIVE SetToSortedSeq(_)
SetToSortedSeq(S) ==
  IF S = {} THEN <<>>
  ELSE LET x == CHOOSE y \in S : \A z \in S : ~StrLess(z, y)
       IN <<x>> \o SetToSortedSeq(S \ {x})

Range(f) == {f[i] : i \in DOMAIN f}

\* fmt.Sprintf("db%d", id)
DbName(id) ==
  CASE id = 1 -> "db1"
    [] id = 2 -> "db2"
    [] id = 3 -> "db3"
    [] id = 4 -> "db4"
    [] OTHER -> "db0"

(***************************************************************************)
(* domain.Database, domain.Sync, domain.BucardoConfig                      *)
(***************************************************************************)
Database(id, pass) == [ID |-> id, Pass |-> pass]

\* A *bool or *int field is <<>> when nil and <<v>> when it points to v.
Sync(name, sources, targets, bidi, herd, tables, strategy, exitOnComplete, timeout) ==
  [Name |-> name, Sources |-> sources, Targets |-> targets,
   Bidirectional |-> bidi, Herd |-> herd, Tables |-> tables,
   Onetimecopy |-> 2, StrictChecking |-> <<>>,
   ExitOnComplete |-> exitOnComplete, ExitOnCompleteTimeout |-> timeout,
   ConflictStrategy |-> strategy]

BucardoConfig(dbs, syncs, logLevel) ==
  [Databases |-> dbs, Syncs |-> syncs, LogLevel |-> logLevel]

(***************************************************************************)
(* Service.validateConfig: the ordered list of validation errors.          *)
(***************************************************************************)
ValidStrategies ==
  {"bucardo_source", "bucardo_target", "bucardo_skip",
   "bucardo_random", "bucardo_latest", "bucardo_abort"}

VErr(e, who, what) == [e |-> e, who |-> who, what |-> what]

\* errors of the database loop: an ID already seen is a duplicate
RECURSIVE DbErrors(_, _)
DbErrors(dbs, i) ==
  IF i > Len(dbs) THEN <<>>
  ELSE (IF \E j \in 1..(i - 1) : dbs[j].ID = dbs[i].ID
        THEN <<VErr("db_duplicated", DbName(dbs[i].ID), "")>>
        ELSE <<>>) \o DbErrors(dbs, i + 1)

RECURSIVE BidiUndefined(_, _, _, _)
BidiUndefined(name, ids, dbIDs, i) ==
  IF i > Len(ids) THEN <<>>
  ELSE (IF ids[i] \notin dbIDs
        THEN <<VErr("bidi_db_undefined", name, DbName(ids[i]))>>
        ELSE <<>>) \o BidiUndefined(name, ids, dbIDs, i + 1)

\* (mutant) the checks of a sync stop at the first error
SyncErrorsFirstOnly(sync, dbIDs, seen) ==
  IF sync.Name = "" THEN <<VErr("missing_name", "", "")>>
  ELSE IF sync.Name \in seen THEN <<VErr("sync_duplicated", sync.Name, "")>>
  ELSE IF Len(sync.Bidirectional) = 1 THEN <<VErr("bidi_needs_two", sync.Name, "")>>
  ELSE IF Len(sync.Bidirectional) = 0 /\ Len(sync.Sources) = 0
       THEN <<VErr("no_source", sync.Name, "")>>
  ELSE <<>>

\* errors of one iteration of the sync loop; seen = syncNames so far
SyncErrors(sync, dbIDs, seen) ==
  IF sync.Name = ""
  THEN <<VErr("missing_name", "", "")>>
  ELSE
    (IF sync.Name \in seen
     THEN <<VErr("sync_duplicated", sync.Name, "")>> ELSE <<>>)
    \o (IF Len(sync.Bidirectional) > 0
        THEN (IF Len(sync.Bidirectional) < 2
              THEN <<VErr("bidi_needs_two", sync.Name, "")>> ELSE <<>>)
             \o BidiUndefined(sync.Name, sync.Bidirectional, dbIDs, 1)
             \o (IF sync.ConflictStrategy \in {"bucardo_source", "bucardo_target"}
                 THEN <<VErr("bidi_static_strategy", sync.Name, sync.ConflictStrategy)>>
                 ELSE <<>>)
        ELSE (IF Len(sync.Sources) = 0
              THEN <<VErr("no_source", sync.Name, "")>> ELSE <<>>)
             \o (IF Len(sync.Targets) = 0
                 THEN <<VErr("no_target", sync.Name, "")>> ELSE <<>>)
             \o (IF sync.Herd = "" /\ sync.Tables = <<>>
                 THEN <<VErr("no_herd_or_tables", sync.Name, "")>> ELSE <<>>))
    \o (IF sync.ConflictStrategy # "" /\ sync.ConflictStrategy \notin ValidStrategies
        THEN <<VErr("invalid_strategy", sync.Name, sync.ConflictStrategy)>>
        ELSE <<>>)

RECURSIVE SyncLoopErrors(_, _, _, _)
SyncLoopErrors(syncs, dbIDs, seen, i) ==
  IF i > Len(syncs) THEN <<>>
  ELSE SyncErrors(syncs[i], dbIDs, seen)
       \o SyncLoopErrors(syncs, dbIDs,
                         IF syncs[i].Name = "" THEN seen ELSE seen \cup {syncs[i].Name},
                         i + 1)

validateConfig(config) ==
  DbErrors(config.Databases, 1)
  \o SyncLoopErrors(config.Syncs, {d.ID : d \in Range(config.Databases)}, {}, 1)

(***************************************************************************)
(* The engine (Bucardo), as the BucardoExecutor port sees it: named        *)
(* databases, syncs, membership groups (dbgroups) and table groups         *)
(* (relgroups / herds), and the daemon's pid marker.                       *)
(***************************************************************************)
\* the order in which the engine lists entity names
NameOrder == <<"A", "B", "C", "X", "Y", "db1", "db2", "db3", "db4", "dbx", "dby">>

ListOf(S) == SelectSeq(NameOrder, LAMBDA n : n \in S)

Engine(dbs, syncs, relgroups, dbgroups, running) ==
  [dbs |-> dbs, syncs |-> syncs, relgroups |-> relgroups,
   dbgroups |-> dbgroups, running |-> running]

\* f with x removed from its domain
Without(f, x) == [y \in DOMAIN f \ {x} |-> f[y]]

\* f with x mapped to v
With(f, x, v) == [y \in DOMAIN f \cup {x} |-> IF y = x THEN v ELSE f[y]]

\* an engine command: kind, entity name, arguments
Cmd(k, n, a) == [k |-> k, n |-> n, a |-> a]

\* what the engine requires for the command to succeed
CmdPre(e, c) ==
  CASE c.k = "add db" -> c.n \notin e.dbs
    [] c.k = "update db" -> c.n \in e.dbs
    [] c.k = "del dbs" -> c.n \in e.dbs
    [] c.k = "del sync" -> c.n \in DOMAIN e.syncs
    [] c.k = "del relgroup" -> c.n \in DOMAIN e.relgroups
    [] c.k = "del dbgroup" -> c.n \in DOMAIN e.dbgroups
    [] c.k = "del herd" -> c.n \in DOMAIN e.relgroups
    [] c.k = "add herd" -> c.n \notin DOMAIN e.relgroups
    [] c.k = "add all tables" -> c.n \in DOMAIN e.relgroups
    [] c.k = "add sync" -> c.n \notin DOMAIN e.syncs
    [] c.k = "update sync" -> c.n \in DOMAIN e.syncs
    [] c.k = "list sync" -> c.n \in DOMAIN e.syncs
    [] c.k = "list relgroup" -> c.n \in DOMAIN e.relgroups
    [] OTHER -> TRUE

\* the tables a new sync's relgroup holds: the named herd's, or the listed ones
SyncAddTables(e, a) ==
  IF a.herd # ""
  THEN (IF a.herd \in DOMAIN e.relgroups THEN e.relgroups[a.herd] ELSE {})
  ELSE {TrimSpace(t) : t \in Range(a.tables)}

\* the engine after the command succeeded
CmdEffect(e, c) ==
  CASE c.k = "add db" -> [e EXCEPT !.dbs = @ \cup {c.n}]
    [] c.k = "del dbs" -> [e EXCEPT !.dbs = @ \ {c.n}]
    [] c.k = "del sync" -> [e EXCEPT !.syncs = Without(@, c.n)]
    [] c.k = "sql del" ->
         [e EXCEPT !.syncs = Without(@, c.n), !.relgroups = Without(@, c.a)]
    [] c.k = "del relgroup" -> [e EXCEPT !.relgroups = Without(@, c.n)]
    [] c.k = "del dbgroup" -> [e EXCEPT !.dbgroups = Without(@, c.n)]
    [] c.k = "add dbgroup" -> [e EXCEPT !.dbgroups = With(@, c.n, c.a)]
    [] c.k = "del herd" -> [e EXCEPT !.relgroups = Without(@, c.n)]
    [] c.k = "add herd" -> [e EXCEPT !.relgroups = With(@, c.n, {})]
    [] c.k = "add all tables" ->
         [e EXCEPT !.relgroups = With(@, c.n, Range(TableNames))]
    [] c.k = "add sync" ->
         LET rg == IF c.a.herd # "" THEN c.a.herd ELSE c.n
         IN [e EXCEPT !.syncs = With(@, c.n, [relgroup |-> rg, dbs |-> c.a.dbs]),
                      !.relgroups = With(@, rg, SyncAddTables(e, c.a))]
    [] c.k = "stop" -> [e EXCEPT !.running = FALSE]
    [] c.k = "stop sync" -> e
    [] c.k = "start" -> [e EXCEPT !.running = TRUE]
    [] OTHER -> e

(***************************************************************************)
(* One reconciliation step threads a record st = [e, o, nf]: the engine,   *)
(* the commands this cycle issued so far (with their outcome), and the     *)
(* number of commands that failed spontaneously in this run.               *)
(***************************************************************************)
\* what a listing command prints, as the adapter parses it
CmdOut(e, c) ==
  CASE c.k = "list dbs" -> ListOf(e.dbs)
    [] c.k = "list syncs" -> ListOf(DOMAIN e.syncs)
    [] c.k = "list sync" -> <<e.syncs[c.n].relgroup>>
    [] c.k = "list relgroup" -> SetToSortedSeq(e.relgroups[c.n])
    [] OTHER -> <<>>

\* a command of the cycle: the phase that issued it, the command, whether it
\* failed on its own (f = FALSE), whether it succeeded, and its parsed output
Op(ph, c, f, ok, out) ==
  [ph |-> ph, k |-> c.k, n |-> c.n, a |-> c.a, f |-> f, ok |-> ok, out |-> out]

\* CLIExecutor.runBucardoCommand: run c; f = the command does not fail on its own
Exec(st, ph, c, f) ==
  LET Ran(ok) ==
        [e |-> IF ok THEN CmdEffect(st.e, c) ELSE st.e,
         o |-> Append(st.o, Op(ph, c, f, ok, IF ok THEN CmdOut(st.e, c) ELSE <<>>)),
         nf |-> IF f THEN st.nf ELSE st.nf + 1]
  IN Ran(f /\ CmdPre(st.e, c))

\* the outcome and the output of the last command of st
LastOk(st) == st.o[Len(st.o)].ok

LastOut(st) == st.o[Len(st.o)].out

(***************************************************************************)
(* Spontaneous failures.  An action draws fl, a choice of at most          *)
(* MaxFail - nfail command slots that fail; a slot is <<i, name>>: the     *)
(* loop iteration and the command within it.                               *)
(***************************************************************************)
NoSlot == <<0, "none">>

FailChoices(budget, slots) == [1..budget -> slots \cup {NoSlot}]

\* the command at slot <<i, s>> does not fail on its own
Good(fl, i, s) == \A j \in DOMAIN fl : fl[j] # <<i, s>>

(***************************************************************************)
(* CLIExecutor.StopBucardo: run "bucardo stop", then wait (bounded) for    *)
(* the pid marker to disappear; nil exactly when it is absent.             *)
(***************************************************************************)
StopBucardo(st, ph, f) == Exec(st, ph, Cmd("stop", "", <<>>), f)

StopBucardoErr(st) == st.e.running

\* a removal that reports a failed relgroup deletion as its error
RemoveSyncAndRelgroupStrict(st, ph, syncName, relgroupName, fCli, fSql, fRel) ==
  LET Cleaned(s3) == [st |-> s3, err |-> ~LastOk(s3)]
      Cleanup(s2) ==
        IF ~LastOk(s2) THEN [st |-> s2, err |-> TRUE]
        ELSE Cleaned(Exec(s2, ph, Cmd("del relgroup", relgroupName, <<>>), fRel))
      Fallback(s1) ==
        IF LastOk(s1) THEN s1
        ELSE Exec(s1, ph, Cmd("sql del", syncName, relgroupName), fSql)
  IN Cleanup(Fallback(Exec(st, ph, Cmd("del sync", syncName, <<>>), fCli)))

(***************************************************************************)
(* CLIExecutor.RemoveSyncAndRelgroup                                       *)
(***************************************************************************)
RemoveSyncAndRelgroup(st, ph, syncName, relgroupName, fCli, fSql, fRel) ==
  LET \* 3. the relgroup, best effort; the first error is returned when the
      \* fallback failed too
      Cleanup(s2) ==
        IF ~LastOk(s2) THEN [st |-> s2, err |-> TRUE]
        ELSE [st |-> Exec(s2, ph, Cmd("del relgroup", relgroupName, <<>>), fRel),
              err |-> FALSE]
      \* 2. the direct SQL deletion when the CLI removal failed
      Fallback(s1) ==
        IF LastOk(s1) THEN s1
        ELSE Exec(s1, ph, Cmd("sql del", syncName, relgroupName), fSql)
  IN Cleanup(Fallback(Exec(st, ph, Cmd("del sync", syncName, <<>>), fCli)))

\* CLIExecutor.GetSyncRelgroup on the details SyncExists returned, with the
\* callers' fallback to the sync name when no relgroup can be parsed
RelgroupOrName(syncDetails, syncName) ==
  IF syncDetails[1] = "" THEN syncName ELSE syncDetails[1]

(***************************************************************************)
(* Service.removeOrphanedDbs                                               *)
(***************************************************************************)
ConfigDbs(config) == {DbName(d.ID) : d \in Range(config.Databases)}

RECURSIVE PruneDbsLoopStopOnError(_, _, _, _, _)
\* (mutant) the first removal that fails ends the pruning
PruneDbsLoopStopOnError(st, names, i, configDbs, fl) ==
  IF i > Len(names) THEN st
  ELSE IF names[i] \notin configDbs
  THEN LET s1 == Exec(st, "prune_dbs", Cmd("del dbs", names[i], <<>>),
                      Good(fl, i, "del"))
       IN IF LastOk(s1)
          THEN PruneDbsLoopStopOnError(s1, names, i + 1, configDbs, fl)
          ELSE s1
  ELSE PruneDbsLoopStopOnError(st, names, i + 1, configDbs, fl)

RECURSIVE PruneDbsLoop(_, _, _, _, _)
\* lines 947-954: remove every listed database that has no declaration
PruneDbsLoop(st, names, i, configDbs, fl) ==
  IF i > Len(names) THEN st
  ELSE IF names[i] \notin configDbs
  THEN PruneDbsLoop(Exec(st, "prune_dbs", Cmd("del dbs", names[i], <<>>),
                         Good(fl, i, "del")),
                    names, i + 1, configDbs, fl)
  ELSE PruneDbsLoop(st, names, i + 1, configDbs, fl)

\* (mutant) the orphans are listed but never removed
removeOrphanedDbsListOnly(st, config, fl) ==
  Exec(st, "prune_dbs", Cmd("list dbs", "", <<>>), Good(fl, 0, "list"))

removeOrphanedDbs(st, config, fl) ==
  LET Prune(s1) ==
        IF ~LastOk(s1) THEN s1
        ELSE PruneDbsLoop(s1, LastOut(s1), 1, ConfigDbs(config), fl)
  IN Prune(Exec(st, "prune_dbs", Cmd("list dbs", "", <<>>), Good(fl, 0, "list")))

(***************************************************************************)
(* Service.removeOrphanedSyncs                                             *)
(***************************************************************************)
ConfigSyncs(config) == {s.Name : s \in Range(config.Syncs)}

RECURSIVE PruneSyncsLoop(_, _, _, _, _)
PruneSyncsLoop(st, names, i, configSyncs, fl) ==
  LET \* SyncExists said no: continue; else remove the sync and its relgroup
      Remove(s1) ==
        IF ~LastOk(s1) THEN s1
        ELSE RemoveSyncAndRelgroup(s1, "prune_syncs", names[i],
                                   RelgroupOrName(LastOut(s1), names[i]),
                                   Good(fl, i, "cli"), Good(fl, i, "sql"),
                                   Good(fl, i, "rel")).st
  IN IF i > Len(names) THEN st
     ELSE PruneSyncsLoop(
            IF names[i] \notin configSyncs
            THEN Remove(Exec(st, "prune_syncs", Cmd("list sync", names[i], <<>>),
                             Good(fl, i, "probe")))
            ELSE st,
            names, i + 1, configSyncs, fl)

\* (mutant) the orphans are listed but never removed
removeOrphanedSyncsListOnly(st, config, fl) ==
  Exec(st, "prune_syncs", Cmd("list syncs", "", <<>>), Good(fl, 0, "list"))

removeOrphanedSyncs(st, config, fl) ==
  LET Prune(s1) ==
        IF ~LastOk(s1) THEN s1
        ELSE PruneSyncsLoop(s1, LastOut(s1), 1, ConfigSyncs(config), fl)
  IN Prune(Exec(st, "prune_syncs", Cmd("list syncs", "", <<>>), Good(fl, 0, "list")))

(***************************************************************************)
(* Service.addDatabasesToBucardo                                           *)
(***************************************************************************)
\* database IDs whose BUCARDO_DB<ID> environment variable is set
EnvDbs == {1}

\* getDbPassword fails on an indirect password whose variable is unset
getDbPasswordErr(db) == db.Pass = "env" /\ db.ID \notin EnvDbs

RECURSIVE addDatabasesToBucardo(_, _, _, _)
addDatabasesToBucardo(st, dbs, i, fl) ==
  LET \* the add or update ran: return its error, or go on with the next
      Modified(s2) ==
        IF ~LastOk(s2) THEN [st |-> s2, err |-> TRUE]
        ELSE addDatabasesToBucardo(s2, dbs, i + 1, fl)
      \* DatabaseExists ran: update the database when it exists, else add it
      Checked(s1, dbName) ==
        IF ~LastOk(s1) \/ getDbPasswordErr(dbs[i]) THEN [st |-> s1, err |-> TRUE]
        ELSE Modified(Exec(s1, "dbs",
                           Cmd(IF dbName \in s1.e.dbs THEN "update db" ELSE "add db",
                               dbName, <<>>),
                           Good(fl, i, "modify")))
  IN IF i > Len(dbs) THEN [st |-> st, err |-> FALSE]
     ELSE Checked(Exec(st, "dbs", Cmd("list dbs", "", <<>>), Good(fl, i, "exists")),
                  DbName(dbs[i].ID))

(***************************************************************************)
(* Service.addSyncsToBucardo                                               *)
(***************************************************************************)
\* fmt.Sprintf("db%d:source", id), fmt.Sprintf("db%d:target", id)
Member(id, role) == [db |-> DbName(id), id |-> id, role |-> role]

\* "db<i>:<role>" < "db<j>:<role'>" as strings (single-digit IDs)
MemberLess(a, b) ==
  a.id < b.id \/ (a.id = b.id /\ a.role = "source" /\ b.role = "target")

RECURSIVE InsertMember(_, _)
InsertMember(x, sorted) ==
  IF sorted = <<>> THEN <<x>>
  ELSE IF MemberLess(x, Head(sorted)) THEN <<x>> \o sorted
  ELSE <<Head(sorted)>> \o InsertMember(x, Tail(sorted))

\* sort.Strings(memberNames)
RECURSIVE SortMembers(_)
SortMembers(l) ==
  IF l = <<>> THEN <<>> ELSE InsertMember(Head(l), SortMembers(Tail(l)))

\* sources first, then targets, in declaration order
DbStrings(sync) ==
  [i \in 1..Len(sync.Sources) |-> Member(sync.Sources[i], "source")]
  \o [i \in 1..Len(sync.Targets) |-> Member(sync.Targets[i], "target")]

\* hash[:4] of sha1.Sum(strings.Join(memberNames, ",")): one value per joined
\* string (collisions of the 32-bit prefix are not modelled)
MemberHash(memberNames) == memberNames

\* the membership group's name: bg_<sync> or sg_<sync>_<hash>
DbgroupName(sync) ==
  IF Len(sync.Bidirectional) > 0
  THEN [kind |-> "bg", sync |-> sync.Name, hash |-> <<>>]
  ELSE [kind |-> "sg", sync |-> sync.Name,
        hash |-> MemberHash(SortMembers(DbStrings(sync)))]

\* the members the group is created with
DbgroupMembers(sync) ==
  IF Len(sync.Bidirectional) > 0
  THEN [i \in 1..Len(sync.Bidirectional) |-> Member(sync.Bidirectional[i], "source")]
  ELSE DbStrings(sync)

\* the desired table list, split on commas, trimmed and sorted
ConfigTables(sync) ==
  SortStrings([i \in 1..Len(sync.Tables) |-> TrimSpace(sync.Tables[i])])

\* CLIExecutor.GetSyncTables after the listing command ran: the relgroup's
\* tables sorted, or nil (empty) when the command failed
CurrentTables(st) == IF LastOk(st) THEN LastOut(st) ELSE <<>>

\* (mutant) the two lists compared as sets
TablesDifferAsSets(currentTables, configTables) ==
  Range(currentTables) # Range(configTables)

\* strings.Join(currentTables, ",") != strings.Join(configTables, ",")
TablesDiffer(currentTables, configTables) == currentTables # configTables

\* the arguments of "add sync"
AddSyncArgs(sync) ==
  [onetimecopy |-> sync.Onetimecopy,
   dbs |-> DbgroupName(sync),
   herd |-> sync.Herd,
   tables |-> IF sync.Herd # "" THEN <<>> ELSE sync.Tables,
   runonce |-> sync.ExitOnComplete = <<TRUE>>,
   strict |-> sync.StrictChecking,
   strategy |-> sync.ConflictStrategy]

\* the arguments of "update sync"
UpdateSyncArgs(sync) ==
  [strict |-> sync.StrictChecking, strategy |-> sync.ConflictStrategy]

\* lines 1112-1168: create the membership group, the herd, then the sync
CreateSync(st, sync, i, fl) ==
  LET \* lines 1166-1168
      Added(s5) == [st |-> s5, res |-> IF LastOk(s5) THEN "ok" ELSE "error"]
      \* lines 1146-1151: the herd is dropped, created and filled from the first
      \* source; the outcomes are discarded
      Herd(g2) ==
        Exec(Exec(Exec(g2, "syncs", Cmd("del herd", sync.Herd, <<>>),
                       Good(fl, i, "delherd")),
                  "syncs", Cmd("add herd", sync.Herd, <<>>), Good(fl, i, "addherd")),
             "syncs", Cmd("add all tables", sync.Herd, DbName(sync.Sources[1])),
             Good(fl, i, "addtables"))
      \* sync.Sources[0] of a sync without sources panics
      Grouped(g2) ==
        IF sync.Herd # "" /\ Len(sync.Sources) = 0
        THEN [st |-> g2, res |-> "panic"]
        ELSE Added(Exec(IF sync.Herd # "" THEN Herd(g2) ELSE g2,
                        "syncs", Cmd("add sync", sync.Name, AddSyncArgs(sync)),
                        Good(fl, i, "add")))
      \* lines 1115-1144: the membership group is dropped and created; the
      \* outcomes are discarded
      Group(name) ==
        Exec(Exec(st, "syncs", Cmd("del dbgroup", name, <<>>), Good(fl, i, "delgroup")),
             "syncs", Cmd("add dbgroup", name, DbgroupMembers(sync)),
             Good(fl, i, "addgroup"))
  IN Grouped(Group(DbgroupName(sync)))

\* an update whose failure is not returned
UpdateSyncIgnoreError(st, sync, i, fl) ==
  LET Updated(u) == [st |-> u, res |-> "ok"]
  IN Updated(Exec(st, "syncs", Cmd("update sync", sync.Name, UpdateSyncArgs(sync)),
                  Good(fl, i, "update")))

\* lines 1096-1109: the non-destructive update
UpdateSync(st, sync, i, fl) ==
  LET Updated(u) == [st |-> u, res |-> IF LastOk(u) THEN "ok" ELSE "error"]
  IN Updated(Exec(st, "syncs", Cmd("update sync", sync.Name, UpdateSyncArgs(sync)),
                  Good(fl, i, "update")))

\* one iteration of the loop over config.Syncs
ReconcileSync(st, sync, i, fl) ==
  LET \* what to do with the sync, and from which state: "create", "update",
      \* or "error" when the deletion for the recreation failed
      Removed(rm) == [st |-> rm.st, do |-> IF rm.err THEN "error" ELSE "create"]
      \* lines 1069-1092: GetSyncTables ran; compare and delete on a difference
      Compared(s2, relgroupName) ==
        IF TablesDiffer(CurrentTables(s2), ConfigTables(sync))
        THEN Removed(RemoveSyncAndRelgroup(s2, "syncs", sync.Name, relgroupName,
                                           Good(fl, i, "cli"), Good(fl, i, "sql"),
                                           Good(fl, i, "rel")))
        ELSE [st |-> s2, do |-> "update"]
      Fetched(s1, relgroupName) ==
        Compared(Exec(s1, "syncs", Cmd("list relgroup", relgroupName, <<>>),
                      Good(fl, i, "tables")),
                 relgroupName)
      \* lines 1061-1067: SyncExists ran
      Existing(s1) ==
        IF ~LastOk(s1) THEN [st |-> s1, do |-> "create"]
        ELSE IF sync.Tables = <<>> THEN [st |-> s1, do |-> "update"]
        ELSE Fetched(s1, RelgroupOrName(LastOut(s1), sync.Name))
      Decided(d) ==
        CASE d.do = "create" -> CreateSync(d.st, sync, i, fl)
          [] d.do = "update" -> UpdateSync(d.st, sync, i, fl)
          [] OTHER -> [st |-> d.st, res |-> "error"]
  IN Decided(Existing(Exec(st, "syncs", Cmd("list sync", sync.Name, <<>>),
                           Good(fl, i, "probe"))))

RECURSIVE addSyncsToBucardo(_, _, _, _)
addSyncsToBucardo(st, syncs, i, fl) ==
  LET Onward(r) ==
        IF r.res # "ok" THEN r ELSE addSyncsToBucardo(r.st, syncs, i + 1, fl)
  IN IF i > Len(syncs) THEN [st |-> st, res |-> "ok"]
     ELSE Onward(ReconcileSync(st, syncs[i], i, fl))

(***************************************************************************)
(* The state.                                                              *)
(***************************************************************************)
VARIABLES
  config,      \* the persisted DesiredState (bucardo.json)
  engine,      \* the engine's entities and pid marker
  rpc,         \* per caller: where its ReloadAndRestart cycle stands
  cfg,         \* per caller: the DesiredState the cycle loaded
  ops,         \* per caller: the engine commands of its current (or last) cycle
  result,      \* per caller: what its last cycle returned
  pred,        \* per caller: what the cycle before its current one returned
  lastResult,  \* what the most recently finished cycle returned
  nfail,       \* commands that failed spontaneously so far
  cycles,      \* cycles begun so far
  mainpc,      \* where main / Service.Run stands
  exitStatus,  \* the process's exit status, -1 while it runs
  mpc,         \* where the monitor stands
  pending,     \* runOnceSyncs: the run-once syncs still awaited
  watched,     \* the run-once syncs the monitor was started with
  allRunOnce,  \* allSyncsAreRunOnce
  timer,       \* the deadline: "none", "set" or "fired"
  lineq,       \* log lines written by the engine and not yet read
  nlines,      \* log lines written so far
  tailAlive,   \* the log reader is running (lineChan is open)
  cancelled,   \* the cancellation token is cancelled
  mops,        \* the engine commands the monitor issued
  published,   \* the log lines the monitor handed to the logger
  lastEvent,   \* the case the monitor's select took last
  broadcast,   \* LogBroadcaster.broadcast: the buffered channel
  clients,     \* LogBroadcaster.clients: the registered connections
  mutex,       \* LogBroadcaster.mutex: "free" or its holder
  conn,        \* per connection: how its peer behaves
  readers,     \* the connections whose read goroutine is running
  bpc,         \* where LogBroadcaster.Start stands
  message,     \* the message Start received last
  todo,        \* the clients Start's range has still to visit
  wstate,      \* the last Write: "none", "returned" or "blocked"
  wret,        \* what the last Write returned
  lastWrite,   \* the last Write's argument and what became of it
  nwrites,     \* calls of Write so far
  arg,         \* the arguments a function is applied to
  ret,         \* what it returned for them
  apc,         \* per administrative caller: where its call stands
  areq,        \* per administrative caller: the request it serves
  adoc,        \* per administrative caller: the DesiredState it loaded
  aresult,     \* per administrative caller: what its last call returned
  ncalls       \* administrative calls begun so far

\* the LogBroadcaster
bvars == <<broadcast, clients, mutex, conn, readers, bpc, message, todo, wstate,
           wret, lastWrite, nwrites>>

\* the monitor
monvars == <<mpc, pending, watched, allRunOnce, timer, lineq, nlines, tailAlive,
             cancelled, mops, published, lastEvent>>

\* the functions applied on their own
purevars == <<arg, ret>>

\* the administrative operations on the DesiredState
avars == <<apc, areq, adoc, aresult, ncalls>>

\* what a reconciliation cycle leaves alone
mvars == <<monvars, bvars, purevars, avars>>

vars == <<config, engine, rpc, cfg, ops, result, pred, lastResult, nfail, cycles,
          mainpc, exitStatus, mvars>>

St(p) == [e |-> engine, o |-> ops[p], nf |-> nfail]

Budget == MaxFail - nfail

(***************************************************************************)
(* The DesiredStates and the initial engine states explored.               *)
(***************************************************************************)
TwoDbs == <<Database(1, "secret"), Database(2, "secret")>>

SyncA(tables) == Sync("A", <<1>>, <<2>>, <<>>, "", tables, "", <<>>, <<>>)

SyncB == Sync("B", <<1>>, <<2>>, <<>>, "h1", <<>>, "bucardo_source", <<>>, <<>>)

SyncC == Sync("C", <<>>, <<>>, <<1, 2>>, "", <<"t3">>, "bucardo_latest", <<>>, <<>>)

ValidConfigs ==
  { BucardoConfig(TwoDbs, <<SyncA(<<"t1", "t2">>)>>, "VERBOSE"),
    BucardoConfig(TwoDbs, <<SyncA(<<"t2", " t1">>), SyncB>>, ""),
    BucardoConfig(TwoDbs, <<SyncA(<<"t1", "t1">>)>>, "VERBOSE"),
    BucardoConfig(TwoDbs, <<SyncC, SyncA(<<"t1", "t2", "t3">>)>>, "VERBOSE"),
    BucardoConfig(TwoDbs, <<>>, ""),
    BucardoConfig(<<Database(1, "env"), Database(2, "env")>>,
                  <<SyncA(<<"t1", "t2">>)>>, "VERBOSE"),
    BucardoConfig(TwoDbs,
                  <<Sync("C", <<>>, <<>>, <<1, 2>>, "h1", <<>>, "", <<>>, <<>>)>>,
                  "VERBOSE"),
    \* sync A with the roles of its two databases exchanged
    BucardoConfig(TwoDbs,
                  <<Sync("A", <<2>>, <<1>>, <<>>, "", <<"t1", "t2">>, "", <<>>, <<>>)>>,
                  "VERBOSE"),
    \* a herd and a table list on one sync: validateConfig accepts it
    BucardoConfig(TwoDbs,
                  <<Sync("A", <<1>>, <<2>>, <<>>, "h1", <<"t1">>, "", <<>>, <<>>)>>,
                  "VERBOSE") }

InvalidConfigs ==
  { BucardoConfig(<<Database(1, "secret"), Database(1, "secret")>>,
                  <<SyncA(<<"t1", "t2">>)>>, "VERBOSE"),
    BucardoConfig(TwoDbs, <<SyncA(<<"t1">>), SyncA(<<"t2">>)>>, "VERBOSE"),
    BucardoConfig(TwoDbs,
                  <<Sync("", <<1>>, <<2>>, <<>>, "", <<"t1">>, "", <<>>, <<>>)>>, ""),
    BucardoConfig(TwoDbs,
                  <<Sync("C", <<>>, <<>>, <<1>>, "", <<"t1">>, "bucardo_source",
                         <<>>, <<>>)>>, "VERBOSE"),
    BucardoConfig(TwoDbs,
                  <<Sync("A", <<>>, <<2>>, <<>>, "", <<>>, "nope", <<>>, <<>>)>>,
                  "VERBOSE"),
    BucardoConfig(TwoDbs,
                  <<Sync("C", <<>>, <<>>, <<1, 3>>, "", <<"t1">>, "", <<>>, <<>>)>>,
                  "VERBOSE"),
    BucardoConfig(TwoDbs,
                  <<SyncA(<<"t1">>),
                    Sync("C", <<>>, <<>>, <<2>>, "h1", <<>>, "bucardo_target",
                         <<>>, <<>>)>>, "VERBOSE"),
    BucardoConfig(TwoDbs,
                  <<Sync("", <<>>, <<>>, <<1>>, "", <<"t1">>, "bucardo_source",
                         <<>>, <<>>)>>, "VERBOSE") }

Configs == ValidConfigs \cup InvalidConfigs

NoSyncs == [n \in {} |-> 0]

EngineStates ==
  { \* a fresh installation
    Engine({}, NoSyncs, NoSyncs, NoSyncs, FALSE),
    \* converged to sync A on t1, t2
    Engine({"db1", "db2"},
           [n \in {"A"} |-> [relgroup |-> "A", dbs |-> DbgroupName(SyncA(<<>>))]],
           [n \in {"A"} |-> {"t1", "t2"}],
           [n \in {DbgroupName(SyncA(<<>>))} |-> DbStrings(SyncA(<<>>))],
           TRUE),
    \* sync A on other tables, an orphaned database and an orphaned sync
    Engine({"db1", "dbx"},
           [n \in {"A", "X"} |-> [relgroup |-> n, dbs |-> DbgroupName(SyncA(<<>>))]],
           [n \in {"A", "X"} |-> {"t1"}],
           [n \in {DbgroupName(SyncA(<<>>))} |-> DbStrings(SyncA(<<>>))],
           TRUE),
    \* only orphans; sync X shows no relgroup, B and C exist
    Engine({"dbx", "dby"},
           [n \in {"B", "C", "X", "Y"} |->
              [relgroup |-> IF n = "X" THEN "" ELSE IF n = "Y" THEN "Y" ELSE "h1",
               dbs |-> DbgroupName(SyncC)]],
           [n \in {"h1", "Y"} |-> {"t1", "t2", "t3"}],
           [n \in {DbgroupName(SyncC)} |-> DbgroupMembers(SyncC)],
           FALSE) }

NoConfig == BucardoConfig(<<>>, <<>>, "")

\* the websocket connections and the log records considered
Conns == {"c1"}

Msgs == {<<1>>, <<1, 2>>}

\* a channel buffer holding n records
Filled(n) == [i \in 1..n |-> <<1>>]

\* NewLogBroadcaster: no client, an empty channel; nothing written yet
NewLogBroadcaster ==
  /\ clients = {}
  /\ mutex = "free"
  /\ conn = [c \in Conns |-> "none"]
  /\ readers = {}
  /\ bpc = "recv"
  /\ message = <<>>
  /\ todo = {}
  /\ wstate = "none"
  /\ wret = [n |-> 0, err |-> "nil"]
  /\ lastWrite = [p |-> <<>>, out |-> "none"]
  /\ nwrites = 0

\* the broadcaster while nothing is logged
BroadcasterIdle == NewLogBroadcaster /\ broadcast = <<>>

\* no function applied on its own
PureIdle == arg = <<>> /\ ret = <<>>

\* no administrative call in progress
AdminIdle ==
  /\ apc = [a \in Admins |-> "idle"]
  /\ areq = [a \in Admins |-> <<>>]
  /\ adoc = [a \in Admins |-> <<>>]
  /\ aresult = [a \in Admins |-> "none"]
  /\ ncalls = 0

\* the monitor before Service.Run starts it
MonitorIdle ==
  /\ mpc = "none"
  /\ pending = {}
  /\ watched = {}
  /\ allRunOnce = FALSE
  /\ timer = "none"
  /\ lineq = <<>>
  /\ nlines = 0
  /\ tailAlive = FALSE
  /\ cancelled = FALSE
  /\ mops = <<>>
  /\ published = <<>>
  /\ lastEvent = "none"

\* before main calls Service.Run: no cycle yet, the monitor not started
Idle ==
  /\ MonitorIdle
  /\ rpc = [p \in Procs |-> "idle"]
  /\ cfg = [p \in Procs |-> NoConfig]
  /\ ops = [p \in Procs |-> <<>>]
  /\ result = [p \in Procs |-> "none"]
  /\ pred = [p \in Procs |-> "none"]
  /\ lastResult = "none"
  /\ nfail = 0
  /\ cycles = 0
  /\ mainpc = "start"
  /\ exitStatus = -1

Init ==
  /\ MonitorIdle
  /\ BroadcasterIdle
  /\ PureIdle
  /\ AdminIdle
  /\ config \in Configs
  /\ engine \in EngineStates
  /\ rpc = [p \in Procs |-> "idle"]
  /\ cfg = [p \in Procs |-> NoConfig]
  /\ ops = [p \in Procs |-> <<>>]
  /\ result = [p \in Procs |-> "none"]
  /\ pred = [p \in Procs |-> "none"]
  /\ lastResult = "none"
  /\ nfail = 0
  /\ cycles = 0
  /\ mainpc = "start"
  /\ exitStatus = -1

(***************************************************************************)
(* Service.ReloadAndRestart, one action per call it makes.                 *)
(***************************************************************************)
\* (mutant) the validation errors are logged but the cycle goes on
ConfigAcceptedLogOnly(loaded, c) == loaded

\* lines 697-703: the cycle proceeds only with a loaded configuration that has
\* no validation error
ConfigAccepted(loaded, c) == loaded /\ validateConfig(c) = <<>>

\* (mutant) the orphans are pruned after the declared entities are reconciled
AfterPruneLast(call) ==
  CASE call = "stop" -> "pgpass"
    [] call = "pgpass" -> "install"
    [] call = "install" -> "loglevel"
    [] call = "loglevel" -> "dbs"
    [] call = "dbs" -> "syncs"
    [] call = "syncs" -> "prune_dbs"
    [] call = "prune_dbs" -> "prune_syncs"
    [] call = "prune_syncs" -> "start"
    [] OTHER -> "idle"

\* the order of the calls of ReloadAndRestart (lines 705-775)
After(call) ==
  CASE call = "stop" -> "pgpass"
    [] call = "pgpass" -> "install"
    [] call = "install" -> "loglevel"
    [] call = "loglevel" -> "prune_dbs"
    [] call = "prune_dbs" -> "prune_syncs"
    [] call = "prune_syncs" -> "dbs"
    [] call = "dbs" -> "syncs"
    [] call = "syncs" -> "start"
    [] OTHER -> "idle"

\* the cycle goes on to its next call
Goto(p, st, next) ==
  /\ st.nf <= MaxFail
  /\ engine' = st.e
  /\ ops' = [ops EXCEPT ![p] = st.o]
  /\ nfail' = st.nf
  /\ rpc' = [rpc EXCEPT ![p] = next]
  /\ UNCHANGED <<config, cfg, result, pred, lastResult, cycles, mainpc, exitStatus>>
  /\ UNCHANGED mvars

\* the cycle returns res to its caller: Service.Run (which returns the error to
\* main, which exits with status 1) or HTTPServer.handleRestart
Return(p, st, res) ==
  /\ st.nf <= MaxFail
  /\ engine' = st.e
  /\ ops' = [ops EXCEPT ![p] = st.o]
  /\ nfail' = st.nf
  /\ rpc' = [rpc EXCEPT ![p] = "idle"]
  /\ result' = [result EXCEPT ![p] = res]
  /\ lastResult' = res
  /\ IF p = "main"
     THEN /\ mainpc' = IF res = "ok" THEN "loaded" ELSE "exited"
          /\ exitStatus' = IF res = "ok" THEN exitStatus
                           ELSE IF res = "panic" THEN 2 ELSE 1
     ELSE UNCHANGED <<mainpc, exitStatus>>
  /\ UNCHANGED <<config, cfg, pred, cycles>>
  /\ UNCHANGED mvars

\* lines 683-703: stat and load the configuration file, validate it
Begin(p) ==
  /\ rpc[p] = "idle"
  /\ cycles < MaxCycles
  /\ \E loaded \in BOOLEAN :
       /\ loaded \/ nfail < MaxFail
       /\ cycles' = cycles + 1
       /\ cfg' = [cfg EXCEPT ![p] = IF loaded THEN config ELSE NoConfig]
       /\ pred' = [pred EXCEPT ![p] = lastResult]
       /\ ops' = [ops EXCEPT ![p] = <<>>]
       /\ nfail' = IF loaded THEN nfail ELSE nfail + 1
       /\ IF ConfigAccepted(loaded, config)
          THEN /\ rpc' = [rpc EXCEPT ![p] = "stop"]
               /\ result' = [result EXCEPT ![p] = "none"]
               /\ UNCHANGED <<lastResult, mainpc, exitStatus>>
          ELSE /\ rpc' = [rpc EXCEPT ![p] = "idle"]
               /\ result' = [result EXCEPT ![p] = "error"]
               /\ lastResult' = "error"
               /\ IF p = "main"
                  THEN mainpc' = "exited" /\ exitStatus' = 1
                  ELSE UNCHANGED <<mainpc, exitStatus>>
       /\ UNCHANGED <<config, engine>>
       /\ UNCHANGED mvars

\* a cycle begins: Service.Run calls ReloadAndRestart once at startup; the
\* restart requests considered here arrive one at a time after it has returned
LoadAndValidate(p) ==
  /\ IF p = "main" THEN mainpc = "start"
     ELSE mainpc = "loaded" /\ \A q \in Procs : rpc[q] = "idle"
  /\ Begin(p)

\* lines 705-706: stop the engine before making changes; the outcome is dropped
StopBeforeChanges(p) ==
  /\ rpc[p] = "stop"
  /\ \E fl \in FailChoices(Budget, {<<0, "stop">>}) :
       Goto(p, StopBucardo(St(p), "pre", Good(fl, 0, "stop")), After("stop"))

\* lines 717-745: write .pgpass for every database, then reset the engine
\* user's password (a failure of the latter is only logged)
SetupPgpass(p) ==
  /\ rpc[p] = "pgpass"
  /\ \E fl \in FailChoices(Budget, {<<0, "write">>, <<0, "alter">>}) :
       \E noPassword \in {\E d \in Range(cfg[p].Databases) : getDbPasswordErr(d)} :
         IF noPassword \/ ~Good(fl, 0, "write")
         THEN Return(p, [St(p) EXCEPT !.nf = IF noPassword THEN @ ELSE @ + 1], "error")
         ELSE Goto(p, Exec(St(p), "pre", Cmd("alter user", "", <<>>),
                           Good(fl, 0, "alter")), After("pgpass"))

\* lines 747-751
InstallBucardo(p) ==
  /\ rpc[p] = "install"
  /\ \E fl \in FailChoices(Budget, {<<0, "install">>}) :
       \E s1 \in {Exec(St(p), "pre", Cmd("install", "", <<>>), Good(fl, 0, "install"))} :
         IF LastOk(s1) THEN Goto(p, s1, After("install")) ELSE Return(p, s1, "error")

\* lines 753-755 and Service.setLogLevel
SetLogLevel(p) ==
  /\ rpc[p] = "loglevel"
  /\ \E fl \in FailChoices(Budget, {<<0, "set">>}) :
       IF cfg[p].LogLevel # ""
       THEN Goto(p, Exec(St(p), "pre", Cmd("set log_level", "", cfg[p].LogLevel),
                         Good(fl, 0, "set")), After("loglevel"))
       ELSE Goto(p, St(p), After("loglevel"))

\* lines 757-759
RemoveOrphanedDbs(p) ==
  /\ rpc[p] = "prune_dbs"
  /\ \E fl \in FailChoices(Budget, {<<0, "list">>}
                                    \cup ((1..Cardinality(engine.dbs)) \X {"del"})) :
       Goto(p, removeOrphanedDbs(St(p), cfg[p], fl), After("prune_dbs"))

\* lines 761-763
RemoveOrphanedSyncs(p) ==
  /\ rpc[p] = "prune_syncs"
  /\ \E fl \in FailChoices(Budget, {<<0, "list">>}
                  \cup ((1..Cardinality(DOMAIN engine.syncs))
                        \X {"probe", "cli", "sql", "rel"})) :
       Goto(p, removeOrphanedSyncs(St(p), cfg[p], fl), After("prune_syncs"))

\* lines 765-768
AddDatabases(p) ==
  /\ rpc[p] = "dbs"
  /\ \E fl \in FailChoices(Budget, (1..Len(cfg[p].Databases)) \X {"exists", "modify"}) :
       \E r \in {addDatabasesToBucardo(St(p), cfg[p].Databases, 1, fl)} :
         IF r.err THEN Return(p, r.st, "error") ELSE Goto(p, r.st, After("dbs"))

SyncSlots ==
  {"probe", "tables", "cli", "sql", "rel", "update",
   "delgroup", "addgroup", "delherd", "addherd", "addtables", "add"}

\* lines 770-773
AddSyncs(p) ==
  /\ rpc[p] = "syncs"
  /\ \E fl \in FailChoices(Budget, (1..Len(cfg[p].Syncs)) \X SyncSlots) :
       \E r \in {addSyncsToBucardo(St(p), cfg[p].Syncs, 1, fl)} :
         IF r.res = "ok" THEN Goto(p, r.st, After("syncs")) ELSE Return(p, r.st, r.res)

\* lines 775-781 and CLIExecutor.StartBucardo: stop any stale daemon (a failure
\* is only logged), then start
StartBucardo(p) ==
  /\ rpc[p] = "start"
  /\ \E fl \in FailChoices(Budget, {<<0, "stop">>, <<0, "start">>}) :
       \E s2 \in {Exec(StopBucardo(St(p), "start", Good(fl, 0, "stop")),
                        "start", Cmd("start", "", <<>>), Good(fl, 0, "start"))} :
         Return(p, s2, IF LastOk(s2) THEN "ok" ELSE "error")

Cycle(p) ==
  \/ LoadAndValidate(p)
  \/ StopBeforeChanges(p)
  \/ SetupPgpass(p)
  \/ InstallBucardo(p)
  \/ SetLogLevel(p)
  \/ RemoveOrphanedDbs(p)
  \/ RemoveOrphanedSyncs(p)
  \/ AddDatabases(p)
  \/ AddSyncs(p)
  \/ StartBucardo(p)

Next == \E p \in Procs : Cycle(p)

Spec == Init /\ [][Next]_vars

(***************************************************************************)
(* Restart requests at any time: main starts the HTTP server in a          *)
(* goroutine before it calls Service.Run, net/http serves every request in *)
(* a goroutine of its own, and handleRestart calls ReloadAndRestart        *)
(* directly.  Explored on a fresh installation.                            *)
(***************************************************************************)
\* HTTPServer.handleRestart (and Service.Run at startup) enters the cycle
handleRestart(p) ==
  /\ exitStatus = -1
  /\ p = "main" => mainpc = "start"
  /\ Begin(p)

InitRestart ==
  /\ Init
  /\ config = BucardoConfig(TwoDbs, <<SyncA(<<"t1", "t2">>)>>, "VERBOSE")
  /\ engine = Engine({}, NoSyncs, NoSyncs, NoSyncs, FALSE)

NextRestart ==
  \E p \in Procs :
    \/ handleRestart(p)
    \/ StopBeforeChanges(p)
    \/ SetupPgpass(p)
    \/ InstallBucardo(p)
    \/ SetLogLevel(p)
    \/ RemoveOrphanedDbs(p)
    \/ RemoveOrphanedSyncs(p)
    \/ AddDatabases(p)
    \/ AddSyncs(p)
    \/ StartBucardo(p)

SpecRestart == InitRestart /\ [][NextRestart]_vars

(***************************************************************************)
(* Service.Run after the startup cycle, and MonitorAdapter: the run-once   *)
(* monitor (MonitorSyncs) and the steady monitor (MonitorBucardo).         *)
(***************************************************************************)
\* Run, lines 633-646: the names of the syncs with exit_on_complete = true
RunOnceSyncs(c) ==
  {c.Syncs[i].Name : i \in {j \in DOMAIN c.Syncs : c.Syncs[j].ExitOnComplete = <<TRUE>>}}

RECURSIVE MaxTimeoutLoop(_, _, _)
\* Run, lines 636-645: the largest timeout among the run-once syncs, nil if none
MaxTimeoutLoop(syncs, i, m) ==
  IF i > Len(syncs) THEN m
  ELSE LET sync == syncs[i]
       IN IF /\ sync.ExitOnComplete = <<TRUE>>
             /\ sync.ExitOnCompleteTimeout # <<>>
             /\ (m = <<>> \/ sync.ExitOnCompleteTimeout[1] > m[1])
          THEN MaxTimeoutLoop(syncs, i + 1, sync.ExitOnCompleteTimeout)
          ELSE MaxTimeoutLoop(syncs, i + 1, m)

MaxTimeout(c) == MaxTimeoutLoop(c.Syncs, 1, <<>>)

\* MonitorSyncs: a deadline is armed only for a positive timeout
DeadlineSet(maxTimeout) == maxTimeout # <<>> /\ maxTimeout[1] > 0

\* (mutant) the monitor takes every sync for run-once
AllSyncsAreRunOnceAlways(c, runOnceSyncs) == TRUE

\* (mutant) the monitor never takes every sync for run-once
AllSyncsAreRunOnceNever(c, runOnceSyncs) == FALSE

\* MonitorSyncs: allSyncsAreRunOnce
AllSyncsAreRunOnce(c, runOnceSyncs) == Len(c.Syncs) = Cardinality(runOnceSyncs)

\* a log line, as far as the monitor reads it: whether it holds the marker
\* "Reason: Normal exit", and the sync named in its "KID (<name>)" part
Lines == [normal : BOOLEAN, kid : {"A", "B"}]

\* a monitor that does not look whether the completed sync is still awaited
CompletedAgain(line, runOnceSyncs) == IF line.normal THEN {line.kid} ELSE {}

\* a monitor that takes every line naming a worker for a completion
CompletedWithoutMarker(line, runOnceSyncs) == {n \in runOnceSyncs : line.kid = n}

\* MonitorSyncs: the pending syncs the line completes
Completed(line, runOnceSyncs) ==
  IF line.normal THEN {n \in runOnceSyncs : line.kid = n} ELSE {}

\* the monitor's view of the engine and of its own commands
MSt == [e |-> engine, o |-> mops, nf |-> nfail]

\* a stop function that stops the engine twice
stopBucardoFuncTwice(st, f) ==
  StopBucardo(StopBucardo(st, "monitor", f), "monitor", f)

\* Run: stopBucardoFunc; an error of the stop is only logged
stopBucardoFunc(st, f) == StopBucardo(st, "monitor", f)

\* (mutant) the deadline ends the process without stopping the engine
OnDeadlineNoStop(st, f) == [st |-> st, status |-> 1]

\* MonitorSyncs, the deadline case: stop the engine, then os.Exit(1)
OnDeadline(st, f) == [st |-> stopBucardoFunc(st, f), status |-> 1]

\* the process is running
Alive == exitStatus = -1

\* (mutant) only the lines with the completion marker reach the logger
PublishMarked(pub, line) == IF line.normal THEN Append(pub, line) ELSE pub

\* m.logger.Info(line, "component", "bucardo_log"): the line as it was read
Publish(pub, line) == Append(pub, line)

\* the monitor's commands took effect
MonitorDid(st) ==
  /\ st.nf <= MaxFail
  /\ engine' = st.e
  /\ mops' = st.o
  /\ nfail' = st.nf

\* the process ends with that status
Exit(status) == exitStatus' = status /\ mainpc' = "exited"

recvars == <<config, rpc, cfg, ops, result, pred, lastResult, cycles, bvars,
             purevars, avars>>

\* Run, lines 628-658, and the start of the monitor it chooses
RunMonitor ==
  /\ Alive /\ mainpc = "loaded" /\ mpc = "none"
  /\ \E fl \in FailChoices(Budget, {<<0, "load">>, <<0, "tail">>}) :
       \E runOnceSyncs \in {RunOnceSyncs(config)} :
          /\ nfail' = IF Good(fl, 0, "load") /\ Good(fl, 0, "tail")
                      THEN nfail ELSE nfail + 1
          /\ IF ~Good(fl, 0, "load") \/ (runOnceSyncs # {} /\ ~Good(fl, 0, "tail"))
             THEN /\ Exit(1)
                  /\ mpc' = "exited"
                  /\ UNCHANGED <<pending, watched, allRunOnce, timer, tailAlive>>
             ELSE /\ mainpc' = "monitor"
                  /\ mpc' = IF runOnceSyncs # {} THEN "watching" ELSE "steady"
                  /\ pending' = runOnceSyncs
                  /\ watched' = runOnceSyncs
                  /\ allRunOnce' = AllSyncsAreRunOnce(config, runOnceSyncs)
                  /\ timer' = IF runOnceSyncs # {} /\ DeadlineSet(MaxTimeout(config))
                              THEN "set" ELSE "none"
                  /\ tailAlive' = Good(fl, 0, "tail")
                  /\ UNCHANGED exitStatus
  /\ UNCHANGED <<engine, lineq, nlines, cancelled, mops, published, lastEvent>>
  /\ UNCHANGED recvars

\* the engine writes a line to its log
EngineLogs ==
  /\ Alive /\ mpc \in {"watching", "steady"} /\ tailAlive
  /\ nlines < MaxLines
  /\ \E line \in Lines : lineq' = Append(lineq, line)
  /\ nlines' = nlines + 1
  /\ UNCHANGED <<engine, nfail, mainpc, exitStatus, mpc, pending, watched,
                 allRunOnce, timer, tailAlive, cancelled, mops, published, lastEvent>>
  /\ UNCHANGED recvars

\* the deadline armed by MonitorSyncs elapses (also after MonitorSyncs has
\* handed over to MonitorBucardo, where nothing receives it)
TimerFires ==
  /\ Alive /\ mpc \in {"watching", "steady"} /\ timer = "set"
  /\ timer' = "fired"
  /\ UNCHANGED <<engine, nfail, mainpc, exitStatus, mpc, pending, watched,
                 allRunOnce, lineq, nlines, tailAlive, cancelled, mops, published,
                 lastEvent>>
  /\ UNCHANGED recvars

\* main: a termination signal arrives and the cancellation token is cancelled
Cancel ==
  /\ Alive /\ mpc \in {"watching", "steady"} /\ ~cancelled
  /\ cancelled' = TRUE
  /\ UNCHANGED <<engine, nfail, mainpc, exitStatus, mpc, pending, watched,
                 allRunOnce, timer, lineq, nlines, tailAlive, mops, published,
                 lastEvent>>
  /\ UNCHANGED recvars

\* the log reader ends: the tail process died, or was killed on cancellation
TailEnds ==
  /\ Alive /\ mpc \in {"watching", "steady"} /\ tailAlive
  /\ tailAlive' = FALSE
  /\ UNCHANGED <<engine, nfail, mainpc, exitStatus, mpc, pending, watched,
                 allRunOnce, timer, lineq, nlines, cancelled, mops, published,
                 lastEvent>>
  /\ UNCHANGED recvars

\* MonitorSyncs, the line case: publish the line, stop and drop the sync it
\* completes, and when none is left stop the engine and return (every sync was
\* run-once) or go on as the steady monitor
OnLine ==
  /\ Alive /\ mpc = "watching" /\ lineq # <<>>
  /\ \E fl \in FailChoices(Budget, {<<0, "stopsync">>, <<0, "stop">>}) :
       \E done \in {Completed(Head(lineq), pending)} :
       \E s1 \in {IF done = {} THEN MSt
                   ELSE Exec(MSt, "monitor",
                             Cmd("stop sync", CHOOSE n \in done : TRUE, <<>>),
                             Good(fl, 0, "stopsync"))} :
         /\ MonitorDid(IF pending = done /\ allRunOnce
                       THEN stopBucardoFunc(s1, Good(fl, 0, "stop")) ELSE s1)
         /\ lineq' = Tail(lineq)
         /\ published' = Publish(published, Head(lineq))
         /\ pending' = pending \ done
         /\ lastEvent' = "line"
         /\ IF pending # done THEN UNCHANGED <<mpc, mainpc, exitStatus>>
            ELSE IF allRunOnce THEN mpc' = "returned" /\ Exit(0)
            ELSE mpc' = "steady" /\ UNCHANGED <<mainpc, exitStatus>>
  /\ UNCHANGED <<watched, allRunOnce, timer, nlines, tailAlive, cancelled>>
  /\ UNCHANGED recvars

\* MonitorSyncs, the line case on a closed channel: return
OnClosed ==
  /\ Alive /\ mpc = "watching" /\ ~tailAlive
  /\ lineq = <<>> \/ cancelled
  /\ lastEvent' = "closed"
  /\ mpc' = "returned"
  /\ Exit(0)
  /\ UNCHANGED <<engine, nfail, pending, watched, allRunOnce, timer, lineq, nlines,
                 tailAlive, cancelled, mops, published>>
  /\ UNCHANGED recvars

\* MonitorSyncs, the deadline case
OnTimeout ==
  /\ Alive /\ mpc = "watching" /\ timer = "fired"
  /\ \E fl \in FailChoices(Budget, {<<0, "stop">>}) :
       \E r \in {OnDeadline(MSt, Good(fl, 0, "stop"))} :
         MonitorDid(r.st) /\ Exit(r.status)
  /\ lastEvent' = "timeout"
  /\ mpc' = "exited"
  /\ UNCHANGED <<pending, watched, allRunOnce, timer, lineq, nlines, tailAlive,
                 cancelled, published>>
  /\ UNCHANGED recvars

\* MonitorSyncs, the cancellation case: stop the engine, return
OnCancel ==
  /\ Alive /\ mpc = "watching" /\ cancelled
  /\ \E fl \in FailChoices(Budget, {<<0, "stop">>}) :
       MonitorDid(stopBucardoFunc(MSt, Good(fl, 0, "stop")))
  /\ lastEvent' = "cancel"
  /\ mpc' = "returned"
  /\ Exit(0)
  /\ UNCHANGED <<pending, watched, allRunOnce, timer, lineq, nlines, tailAlive,
                 cancelled, published>>
  /\ UNCHANGED recvars

\* streamBucardoLog: the steady monitor's reader publishes a line
SteadyLine ==
  /\ Alive /\ mpc = "steady" /\ lineq # <<>>
  /\ lineq' = Tail(lineq)
  /\ published' = Publish(published, Head(lineq))
  /\ UNCHANGED <<engine, nfail, mainpc, exitStatus, mpc, pending, watched,
                 allRunOnce, timer, nlines, tailAlive, cancelled, mops, lastEvent>>
  /\ UNCHANGED recvars

\* MonitorBucardo: on a signal or on cancellation stop the engine and return
SteadyShutdown ==
  /\ Alive /\ mpc = "steady" /\ cancelled
  /\ \E fl \in FailChoices(Budget, {<<0, "stop">>}) :
       MonitorDid(stopBucardoFunc(MSt, Good(fl, 0, "stop")))
  /\ mpc' = "returned"
  /\ Exit(0)
  /\ UNCHANGED <<pending, watched, allRunOnce, timer, lineq, nlines, tailAlive,
                 cancelled, published, lastEvent>>
  /\ UNCHANGED recvars

\* the DesiredStates the monitor is explored with
RunOnce(name, timeout) ==
  Sync(name, <<1>>, <<2>>, <<>>, "", <<"t1">>, "", <<TRUE>>, timeout)

MonitorConfigs ==
  { BucardoConfig(TwoDbs, <<RunOnce("A", <<30>>)>>, "VERBOSE"),
    BucardoConfig(TwoDbs, <<RunOnce("A", <<>>), RunOnce("B", <<60>>)>>, "VERBOSE"),
    BucardoConfig(TwoDbs, <<RunOnce("A", <<30>>), SyncB>>, "VERBOSE"),
    BucardoConfig(TwoDbs, <<SyncA(<<"t1", "t2">>)>>, "VERBOSE"),
    BucardoConfig(TwoDbs, <<RunOnce("A", <<0>>)>>, "DEBUG"),
    BucardoConfig(TwoDbs, <<RunOnce("A", <<>>)>>, ""),
    BucardoConfig(TwoDbs,
                  <<Sync("A", <<1>>, <<2>>, <<>>, "", <<"t1">>, "", <<FALSE>>, <<30>>),
                    RunOnce("B", <<>>)>>, "VERBOSE") }

\* the startup cycle without any failure, on a fresh installation
StartupCycle(c) ==
  LET s0 == [e |-> Engine({}, NoSyncs, NoSyncs, NoSyncs, FALSE), o |-> <<>>, nf |-> 0]
      s1 == StopBucardo(s0, "pre", TRUE)
      s2 == Exec(s1, "pre", Cmd("alter user", "", <<>>), TRUE)
      s3 == Exec(s2, "pre", Cmd("install", "", <<>>), TRUE)
      s4 == IF c.LogLevel # ""
            THEN Exec(s3, "pre", Cmd("set log_level", "", c.LogLevel), TRUE) ELSE s3
      s5 == removeOrphanedDbs(s4, c, <<>>)
      s6 == removeOrphanedSyncs(s5, c, <<>>)
      s7 == addDatabasesToBucardo(s6, c.Databases, 1, <<>>).st
      s8 == addSyncsToBucardo(s7, c.Syncs, 1, <<>>).st
      s9 == StopBucardo(s8, "start", TRUE)
  IN Exec(s9, "start", Cmd("start", "", <<>>), TRUE)

\* Service.Run when its startup cycle has returned without error
InitMon ==
  /\ MonitorIdle
  /\ BroadcasterIdle
  /\ PureIdle
  /\ AdminIdle
  /\ config \in MonitorConfigs
  /\ engine = StartupCycle(config).e
  /\ rpc = [p \in Procs |-> "idle"]
  /\ cfg = [p \in Procs |-> IF p = "main" THEN config ELSE NoConfig]
  /\ ops = [p \in Procs |-> IF p = "main" THEN StartupCycle(config).o ELSE <<>>]
  /\ result = [p \in Procs |-> IF p = "main" THEN "ok" ELSE "none"]
  /\ pred = [p \in Procs |-> "none"]
  /\ lastResult = "ok"
  /\ nfail = 0
  /\ cycles = 1
  /\ mainpc = "loaded"
  /\ exitStatus = -1

NextMon ==
  \/ RunMonitor
  \/ EngineLogs
  \/ TimerFires
  \/ Cancel
  \/ TailEnds
  \/ OnLine
  \/ OnClosed
  \/ OnTimeout
  \/ OnCancel
  \/ SteadyLine
  \/ SteadyShutdown

SpecMon == InitMon /\ [][NextMon]_vars

(***************************************************************************)
(* Properties of the reconciliation cycle.                                 *)
(***************************************************************************)
\* the cycle of caller p has returned
Finished(p) == rpc[p] = "idle" /\ result[p] # "none"

\* no command in the log failed on its own
AllGood(o) == \A i \in DOMAIN o : o[i].f

\* the declared sync of that name
SyncNamed(c, n) == CHOOSE s \in Range(c.Syncs) : s.Name = n

\* the engine holds exactly the declared syncs and databases
Converged(e, c) == DOMAIN e.syncs = ConfigSyncs(c) /\ e.dbs = ConfigDbs(c)

\* C1: when validateConfig reports an error for the loaded DesiredState,
\* ReloadAndRestart returns an error and the cycle issues no engine command.
C1_InvalidConfigIssuesNothing ==
  \A p \in Procs :
    validateConfig(cfg[p]) # <<>>
      => rpc[p] = "idle" /\ result[p] = "error" /\ ops[p] = <<>>

C1_Witness ==
  \E p \in Procs :
    validateConfig(cfg[p]) # <<>> /\ Finished(p) /\ result[p] = "error"

\* C2: when a cycle returns success and none of its commands failed, the
\* engine holds exactly the declared sync names and the names db<ID> of the
\* declared databases, whatever the engine held before.
C2_SuccessfulCycleConverges ==
  [][\A p \in Procs :
       (rpc[p] # "idle" /\ rpc'[p] = "idle" /\ result'[p] = "ok" /\ AllGood(ops'[p]))
         => Converged(engine', cfg[p])]_vars

C2_Witness ==
  \E p \in Procs :
    /\ Finished(p) /\ result[p] = "ok" /\ AllGood(ops[p])
    /\ Converged(engine, cfg[p])
    /\ \E i \in DOMAIN ops[p] : ops[p][i].k = "del dbs" /\ ops[p][i].ok
    /\ \E i \in DOMAIN ops[p] : ops[p][i].k = "del sync" /\ ops[p][i].ok
    /\ \E i \in DOMAIN ops[p] : ops[p][i].k = "add sync" /\ ops[p][i].ok

\* C3: in addSyncsToBucardo an existing declared sync with an explicit table
\* list has its table list fetched; the sync is deleted exactly when the
\* trimmed, sorted desired list differs from the list the engine reported, it
\* is added again exactly when that deletion succeeded, and with equal lists
\* neither a delete nor an add is issued for it.
C3_RecreateIffTablesDiffer ==
  \A p \in Procs : \A j \in DOMAIN ops[p] :
    LET o == ops[p] IN
    /\ (o[j].ph = "syncs" /\ o[j].k = "list sync" /\ o[j].ok
        /\ SyncNamed(cfg[p], o[j].n).Tables # <<>>)
         => (j < Len(o) /\ o[j + 1].k = "list relgroup")
    /\ (o[j].ph = "syncs" /\ o[j].k = "list relgroup")
         => LET name == o[j - 1].n
                differ == o[j].out # ConfigTables(SyncNamed(cfg[p], name))
                deleted == j < Len(o) /\ o[j + 1].k = "del sync" /\ o[j + 1].n = name
                removed == deleted /\ (o[j + 1].ok
                                       \/ (j + 2 <= Len(o) /\ o[j + 2].k = "sql del"
                                           /\ o[j + 2].ok))
                added == \E i \in (j + 1)..Len(o) :
                           o[i].k = "add sync" /\ o[i].n = name
                touched == \E i \in (j + 1)..Len(o) :
                             /\ o[i].ph = "syncs"
                             /\ o[i].k \in {"del sync", "sql del", "add sync"}
                             /\ o[i].n = name
            IN /\ differ <=> deleted
               /\ added <=> removed
               /\ ~differ => ~touched

C3_Witness ==
  \E p \in Procs : \E j \in DOMAIN ops[p] :
    LET o == ops[p] IN
    /\ o[j].ph = "syncs" /\ o[j].k = "list relgroup" /\ o[j].ok
    /\ o[j].out # ConfigTables(SyncNamed(cfg[p], o[j - 1].n))
    /\ j + 1 <= Len(o) /\ o[j + 1].k = "del sync" /\ o[j + 1].ok
    /\ \E i \in (j + 1)..Len(o) : o[i].k = "add sync" /\ o[i].n = o[j - 1].n

\* the cycle issued no add and no delete of a database, sync, membership group
\* or table group
NoAddNoDelete(o) ==
  \A i \in DOMAIN o :
    o[i].k \notin {"add db", "del dbs", "add sync", "del sync", "sql del",
                   "add dbgroup", "del dbgroup", "add herd", "del herd",
                   "del relgroup", "add all tables"}

\* C4: a cycle that follows a successful cycle, with the same DesiredState and
\* no failed command in either, issues no add and no delete.
C4_SecondCycleIssuesNoAddNoDelete ==
  \A p \in Procs : (pred[p] = "ok" /\ nfail = 0) => NoAddNoDelete(ops[p])

\* the commands of kind k that phase ph issued for the entity n
Deletions(o, ph, k, n) ==
  Cardinality({i \in DOMAIN o : o[i].ph = ph /\ o[i].k = k /\ o[i].n = n})

\* the names the listing of phase ph reported
Listed(o, ph, k) ==
  UNION {Range(o[i].out) : i \in {j \in DOMAIN o : o[j].ph = ph /\ o[j].k = k /\ o[j].ok}}

\* the existence probe of removeOrphanedSyncs confirmed the sync n
Probed(o, n) ==
  \E i \in DOMAIN o :
    o[i].ph = "prune_syncs" /\ o[i].k = "list sync" /\ o[i].n = n /\ o[i].ok

DeclaredKinds ==
  {"list dbs", "add db", "update db", "list sync", "sql del",
   "add dbgroup", "add herd", "add all tables", "add sync", "update sync"}

\* C6: a command issued for a declared database or sync during database or
\* sync reconciliation that fails is the last command of the cycle, and the
\* cycle returns an error.
C6_DeclaredFailureAborts ==
  \A p \in Procs : \A j \in DOMAIN ops[p] :
    LET o == ops[p] IN
    (o[j].ph \in {"dbs", "syncs"} /\ o[j].k \in DeclaredKinds /\ ~o[j].f)
      => j = Len(o) /\ rpc[p] = "idle" /\ result[p] = "error"

\* a deletion issued by the orphan pruning
IsOrphanDeletion(op) ==
  /\ op.ph \in {"prune_dbs", "prune_syncs"}
  /\ op.k \in {"del dbs", "del sync", "sql del", "del relgroup"}

\* a create or update issued for a declared database or sync
IsDeclaredWrite(op) ==
  /\ op.ph \in {"dbs", "syncs"}
  /\ op.k \in {"add db", "update db", "add sync", "update sync"}

IsPruning(op) == op.ph \in {"prune_dbs", "prune_syncs"}

\* every declared database and sync was created or updated, and the engine
\* was started
Reconciled(o, c) ==
  /\ \A d \in ConfigDbs(c) :
       \E i \in DOMAIN o :
         o[i].ph = "dbs" /\ o[i].k \in {"add db", "update db"} /\ o[i].n = d /\ o[i].ok
  /\ \A n \in ConfigSyncs(c) :
       \E i \in DOMAIN o :
         /\ o[i].ph = "syncs" /\ o[i].k \in {"add sync", "update sync"}
         /\ o[i].n = n /\ o[i].ok
  /\ o[Len(o)].k = "start" /\ o[Len(o)].ok

\* a deletion was attempted for every orphan a listing reported (for a sync:
\* whose probe confirmed it)
OrphansAttempted(o, c) ==
  /\ \A n \in Listed(o, "prune_dbs", "list dbs") \ ConfigDbs(c) :
       Deletions(o, "prune_dbs", "del dbs", n) = 1
  /\ \A n \in Listed(o, "prune_syncs", "list syncs") \ ConfigSyncs(c) :
       Probed(o, n) => Deletions(o, "prune_syncs", "del sync", n) = 1

\* C8: a cycle whose only failed commands are commands of the orphan pruning
\* (a listing or a deletion) is not aborted: it returns success, a deletion is
\* attempted for every other listed orphan, every declared database and sync
\* is reconciled and the engine is started.
C8_PruningFailureDoesNotAbort ==
  \A p \in Procs :
    (/\ Finished(p) /\ result[p] # "panic"
     /\ \E i \in DOMAIN ops[p] : ~ops[p][i].f
     /\ \A i \in DOMAIN ops[p] : ~ops[p][i].f => IsPruning(ops[p][i]))
      => /\ result[p] = "ok"
         /\ Reconciled(ops[p], cfg[p])
         /\ OrphansAttempted(ops[p], cfg[p])

C8_Witness ==
  \E p \in Procs : \E i \in DOMAIN ops[p] :
    LET o == ops[p] IN
    /\ Finished(p) /\ result[p] = "ok"
    /\ o[i].k = "del dbs" /\ ~o[i].f
    /\ \E j \in (i + 1)..Len(o) : o[j].k = "del dbs"
    /\ \E j \in (i + 1)..Len(o) : o[j].k = "del sync"
    /\ Reconciled(o, cfg[p])
    /\ cfg[p].Syncs # <<>>

(***************************************************************************)
(* Properties of the monitor.                                              *)
(***************************************************************************)
\* the monitor's last command stopped the whole engine
StoppedLast == mops # <<>> /\ mops[Len(mops)].k = "stop"

\* C9: when every sync of the DesiredState is run-once and the monitor has
\* read a normal-completion line for each sync it awaited, it has stopped the
\* whole engine (once, as its last command) and returned, and the process has
\* ended with status 0.
C9_AllRunOnceCompletedExitsZero ==
  (/\ watched # {} /\ pending = {}
   /\ \A s \in Range(config.Syncs) : s.ExitOnComplete = <<TRUE>>)
    => /\ mpc = "returned" /\ exitStatus = 0
       /\ StoppedLast
       /\ Cardinality({i \in DOMAIN mops : mops[i].k = "stop"}) = 1

C9_Witness ==
  /\ watched = {"A", "B"} /\ pending = {}
  /\ exitStatus = 0 /\ StoppedLast
  /\ Len(published) = 3

Copy(p) == [i \in 1..Len(p) |-> p[i]]

\* (mutant) a plain channel send: the sender waits while the buffer is full
SendOrWait(buf, msg) ==
  IF Len(buf) < BroadcastCap
  THEN [buf |-> Append(buf, msg), out |-> "sent"]
  ELSE [buf |-> buf, out |-> "blocked"]

\* Write, lines 251-255: select with a default case: send when the buffer has
\* room, drop otherwise
SendOrDrop(buf, msg) ==
  IF Len(buf) < BroadcastCap
  THEN [buf |-> Append(buf, msg), out |-> "sent"]
  ELSE [buf |-> buf, out |-> "dropped"]

\* what the LogBroadcaster leaves alone
idlevars == <<config, engine, rpc, cfg, ops, result, pred, lastResult, nfail,
              cycles, mainpc, exitStatus, monvars, purevars, avars>>

\* Write(p), called by the logger for every record
Write(p) ==
  /\ wstate # "blocked" /\ nwrites < MaxWrites
  /\ nwrites' = nwrites + 1
  /\ \E r \in {SendOrDrop(broadcast, Copy(p))} :
       /\ broadcast' = r.buf
       /\ lastWrite' = [p |-> p, out |-> r.out]
       /\ IF r.out = "blocked"
          THEN wstate' = "blocked" /\ UNCHANGED wret
          ELSE wstate' = "returned" /\ wret' = [n |-> Len(p), err |-> "nil"]
  /\ UNCHANGED <<clients, mutex, conn, readers, bpc, message, todo>>
  /\ UNCHANGED idlevars

\* Start, line 204: receive the next record from the channel
StartReceive ==
  /\ bpc = "recv" /\ broadcast # <<>>
  /\ message' = Head(broadcast)
  /\ broadcast' = Tail(broadcast)
  /\ bpc' = "lock"
  /\ UNCHANGED <<clients, mutex, conn, readers, todo, wstate, wret, lastWrite, nwrites>>
  /\ UNCHANGED idlevars

\* Start, lines 205-206: take the mutex and range over the clients
StartLock ==
  /\ bpc = "lock" /\ mutex = "free"
  /\ mutex' = "start"
  /\ todo' = clients
  /\ bpc' = "range"
  /\ UNCHANGED <<broadcast, clients, conn, readers, message, wstate, wret,
                 lastWrite, nwrites>>
  /\ UNCHANGED idlevars

\* Start, lines 207-210: WriteMessage to one client; it waits while the peer
\* does not read, and on an error the connection is closed and unregistered
StartSend(c) ==
  /\ bpc = "range" /\ c \in todo
  /\ conn[c] # "stalled"
  /\ todo' = todo \ {c}
  /\ IF conn[c] = "open" THEN UNCHANGED <<clients, conn>>
     ELSE /\ clients' = clients \ {c}
          /\ conn' = [conn EXCEPT ![c] = "closed"]
  /\ UNCHANGED <<broadcast, mutex, readers, bpc, message, wstate, wret,
                 lastWrite, nwrites>>
  /\ UNCHANGED idlevars

\* Start, line 212: every client was visited, release the mutex
StartUnlock ==
  /\ bpc = "range" /\ todo = {}
  /\ mutex' = "free"
  /\ bpc' = "recv"
  /\ UNCHANGED <<broadcast, clients, conn, readers, message, todo, wstate, wret,
                 lastWrite, nwrites>>
  /\ UNCHANGED idlevars

\* a registration that does not take the mutex
HandleWebsocketNoLock(c) ==
  /\ conn[c] = "none"
  /\ conn' = [conn EXCEPT ![c] = "open"]
  /\ clients' = clients \cup {c}
  /\ readers' = readers \cup {c}
  /\ UNCHANGED <<broadcast, mutex, bpc, message, todo, wstate, wret, lastWrite,
                 nwrites>>
  /\ UNCHANGED idlevars

\* HandleWebsocket, lines 218-240: upgrade the request, register the
\* connection under the mutex and start its read goroutine
HandleWebsocket(c) ==
  /\ conn[c] = "none" /\ mutex = "free"
  /\ conn' = [conn EXCEPT ![c] = "open"]
  /\ clients' = clients \cup {c}
  /\ readers' = readers \cup {c}
  /\ UNCHANGED <<broadcast, mutex, bpc, message, todo, wstate, wret, lastWrite,
                 nwrites>>
  /\ UNCHANGED idlevars

\* the peer of a connection stops reading, reads again, or goes away
PeerStalls(c) ==
  /\ conn[c] = "open"
  /\ conn' = [conn EXCEPT ![c] = "stalled"]
  /\ UNCHANGED <<broadcast, clients, mutex, readers, bpc, message, todo, wstate,
                 wret, lastWrite, nwrites>>
  /\ UNCHANGED idlevars

PeerResumes(c) ==
  /\ conn[c] = "stalled"
  /\ conn' = [conn EXCEPT ![c] = "open"]
  /\ UNCHANGED <<broadcast, clients, mutex, readers, bpc, message, todo, wstate,
                 wret, lastWrite, nwrites>>
  /\ UNCHANGED idlevars

PeerLeaves(c) ==
  /\ conn[c] \in {"open", "stalled"}
  /\ conn' = [conn EXCEPT ![c] = "broken"]
  /\ UNCHANGED <<broadcast, clients, mutex, readers, bpc, message, todo, wstate,
                 wret, lastWrite, nwrites>>
  /\ UNCHANGED idlevars

\* HandleWebsocket, lines 228-239: ReadMessage fails, the read goroutine
\* unregisters the connection under the mutex and closes it
ReaderEnds(c) ==
  /\ c \in readers /\ conn[c] \in {"broken", "closed"}
  /\ mutex = "free"
  /\ readers' = readers \ {c}
  /\ clients' = clients \ {c}
  /\ conn' = [conn EXCEPT ![c] = "closed"]
  /\ UNCHANGED <<broadcast, mutex, bpc, message, todo, wstate, wret, lastWrite,
                 nwrites>>
  /\ UNCHANGED idlevars

\* the broadcaster at any fill level of its channel
InitLog ==
  /\ NewLogBroadcaster
  /\ broadcast \in {Filled(n) : n \in {0, BroadcastCap - 1, BroadcastCap}}
  /\ Idle /\ PureIdle /\ AdminIdle
  /\ config = NoConfig
  /\ engine = Engine({}, NoSyncs, NoSyncs, NoSyncs, FALSE)

NextLog ==
  \/ \E p \in Msgs : Write(p)
  \/ StartReceive
  \/ StartLock
  \/ StartUnlock
  \/ \E c \in Conns :
       \/ StartSend(c)
       \/ HandleWebsocket(c)
       \/ PeerStalls(c)
       \/ PeerResumes(c)
       \/ PeerLeaves(c)
       \/ ReaderEnds(c)

SpecLog == InitLog /\ [][NextLog]_vars

(***************************************************************************)
(* The membership group's name, computed for the same sync in two cycles.  *)
(***************************************************************************)
\* the participant lists considered: up to two entries of two databases
Participants == {<<>>, <<1>>, <<2>>, <<1, 1>>, <<1, 2>>, <<2, 1>>}

Memberships ==
  {Sync("A", s, t, b, "", <<"t1">>, "", <<>>, <<>>) :
     s \in Participants, t \in Participants, b \in {<<>>, <<1, 2>>}}

\* what the name computations leave alone
namevars == <<config, engine, rpc, cfg, ops, result, pred, lastResult, nfail,
              cycles, mainpc, exitStatus, monvars, bvars, avars>>

\* addSyncsToBucardo, lines 1115-1139, for the sync as the next cycle finds it
ComputeDbgroupName ==
  /\ Len(ret) < Len(arg)
  /\ ret' = Append(ret, DbgroupName(arg[Len(ret) + 1]))
  /\ UNCHANGED arg
  /\ UNCHANGED namevars

InitNames ==
  /\ arg \in Memberships \X Memberships
  /\ ret = <<>>
  /\ Idle /\ BroadcasterIdle /\ AdminIdle
  /\ config = NoConfig
  /\ engine = Engine({}, NoSyncs, NoSyncs, NoSyncs, FALSE)

NextNames == ComputeDbgroupName

SpecNames == InitNames /\ [][NextNames]_vars

(***************************************************************************)
(* Service.validateConfig applied to DesiredStates of every sync shape.    *)
(***************************************************************************)
\* syncs with each of the optional parts present or absent
Shapes ==
  {Sync("A", s, t, b, h, tb, cs, <<>>, <<>>) :
     s \in {<<>>, <<1>>}, t \in {<<>>, <<2>>}, b \in {<<>>, <<1>>, <<1, 2>>},
     h \in {"", "h1"}, tb \in {<<>>, <<"t1">>},
     cs \in {"", "bucardo_source", "bucardo_target", "bucardo_latest"}}

\* the shape alone, and after another sync
ShapeConfigs ==
  {BucardoConfig(TwoDbs, <<sh>>, "") : sh \in Shapes}
  \cup {BucardoConfig(TwoDbs, <<SyncB, sh>>, "") : sh \in Shapes}

\* UpdateConfig, line 669, and ReloadAndRestart, line 697: validate the document
Validate ==
  /\ ret = <<>>
  /\ ret' = <<validateConfig(arg[1])>>
  /\ UNCHANGED arg
  /\ UNCHANGED namevars

InitValidate ==
  /\ arg \in {<<c>> : c \in ShapeConfigs}
  /\ ret = <<>>
  /\ Idle /\ BroadcasterIdle /\ AdminIdle
  /\ config = NoConfig
  /\ engine = Engine({}, NoSyncs, NoSyncs, NoSyncs, FALSE)

NextValidate == Validate

SpecValidate == InitValidate /\ [][NextValidate]_vars

(***************************************************************************)
(* The administrative operations on the persisted DesiredState:            *)
(* Service.UpdateConfig, AddSync, UpdateSync and DeleteSync.               *)
(***************************************************************************)
Request(op, name, sync, doc) == [op |-> op, name |-> name, sync |-> sync, doc |-> doc]

\* AddSync, lines 810-816: refuse a name that exists, else append
AddSyncDoc(doc, sync) ==
  IF \E i \in DOMAIN doc.Syncs : doc.Syncs[i].Name = sync.Name
  THEN [err |-> TRUE, doc |-> doc]
  ELSE [err |-> FALSE, doc |-> [doc EXCEPT !.Syncs = Append(@, sync)]]

\* UpdateSync, lines 824-838: replace the first sync of that name, keeping the
\* name of the path
UpdateSyncDoc(doc, name, updated) ==
  IF \A i \in DOMAIN doc.Syncs : doc.Syncs[i].Name # name
  THEN [err |-> TRUE, doc |-> doc]
  ELSE [err |-> FALSE,
        doc |-> [doc EXCEPT
                   !.Syncs[CHOOSE i \in DOMAIN doc.Syncs :
                             /\ doc.Syncs[i].Name = name
                             /\ \A j \in 1..(i - 1) : doc.Syncs[j].Name # name]
                     = [updated EXCEPT !.Name = name]]]

\* DeleteSync, lines 845-858: drop every sync of that name
RECURSIVE WithoutSync(_, _)
WithoutSync(syncs, name) ==
  IF syncs = <<>> THEN <<>>
  ELSE (IF Head(syncs).Name = name THEN <<>> ELSE <<Head(syncs)>>)
       \o WithoutSync(Tail(syncs), name)

\* a DeleteSync that does not look whether the name was found
DeleteSyncDocUnchecked(doc, name) ==
  [err |-> FALSE, doc |-> [doc EXCEPT !.Syncs = WithoutSync(@, name)]]

DeleteSyncDoc(doc, name) ==
  IF \A i \in DOMAIN doc.Syncs : doc.Syncs[i].Name # name
  THEN [err |-> TRUE, doc |-> doc]
  ELSE [err |-> FALSE, doc |-> [doc EXCEPT !.Syncs = WithoutSync(@, name)]]

\* the document the request makes of the loaded one
Resulting(req, doc) ==
  CASE req.op = "AddSync" -> AddSyncDoc(doc, req.sync)
    [] req.op = "UpdateSync" -> UpdateSyncDoc(doc, req.name, req.sync)
    [] req.op = "DeleteSync" -> DeleteSyncDoc(doc, req.name)
    [] OTHER -> [err |-> FALSE, doc |-> doc]

\* (mutant) the document is saved before it is validated
UpdateConfigSaveFirst(doc, saveOk) ==
  [res |-> IF saveOk /\ validateConfig(doc) = <<>> THEN "ok" ELSE "error",
   saved |-> saveOk, reload |-> FALSE]

\* (mutant) a saved document is reconciled at once
UpdateConfigThenReload(doc, saveOk) ==
  IF validateConfig(doc) # <<>>
  THEN [res |-> "error", saved |-> FALSE, reload |-> FALSE]
  ELSE [res |-> IF saveOk THEN "ok" ELSE "error", saved |-> saveOk,
        reload |-> saveOk]

\* UpdateConfig, lines 667-673: validate, then save; nothing else is called
\* (reload: whether ReloadAndRestart is called)
UpdateConfig(doc, saveOk) ==
  IF validateConfig(doc) # <<>>
  THEN [res |-> "error", saved |-> FALSE, reload |-> FALSE]
  ELSE IF saveOk THEN [res |-> "ok", saved |-> TRUE, reload |-> FALSE]
  ELSE [res |-> "error", saved |-> FALSE, reload |-> FALSE]

\* the requests considered
AdminSyncs ==
  { SyncB,
    SyncA(<<"t3">>),
    Sync("", <<1>>, <<2>>, <<>>, "", <<"t1">>, "", <<>>, <<>>),
    Sync("B", <<>>, <<2>>, <<>>, "", <<>>, "nope", <<>>, <<>>) }

AdminDocs ==
  { BucardoConfig(TwoDbs, <<SyncB>>, "VERBOSE"),
    BucardoConfig(TwoDbs, <<SyncA(<<"t1">>), SyncA(<<"t2">>)>>, "VERBOSE"),
    BucardoConfig(<<Database(1, "secret"), Database(1, "secret")>>, <<>>, "") }

Requests ==
  {Request("UpdateConfig", "", <<>>, d) : d \in AdminDocs}
  \cup {Request("AddSync", "", sy, <<>>) : sy \in AdminSyncs}
  \cup {Request("UpdateSync", n, sy, <<>>) : n \in {"A", "Z"}, sy \in AdminSyncs}
  \cup {Request("DeleteSync", n, <<>>, <<>>) : n \in {"A", "Z"}}

\* what the administrative operations leave alone
adminvars == <<rpc, cfg, ops, result, pred, lastResult, cycles, mainpc,
               exitStatus, monvars, bvars, purevars>>

\* a handler takes a request; AddSync, UpdateSync and DeleteSync load the
\* persisted DesiredState first (lines 806, 820, 841)
AdminLoad(a, req) ==
  /\ apc[a] = "idle" /\ ncalls < MaxCalls
  /\ ncalls' = ncalls + 1
  /\ areq' = [areq EXCEPT ![a] = req]
  /\ \E loaded \in BOOLEAN :
       /\ loaded \/ (nfail < MaxFail /\ req.op # "UpdateConfig")
       /\ nfail' = IF loaded THEN nfail ELSE nfail + 1
       /\ IF loaded
          THEN /\ apc' = [apc EXCEPT ![a] = "loaded"]
               /\ adoc' = [adoc EXCEPT ![a] = <<IF req.op = "UpdateConfig"
                                                 THEN req.doc ELSE config>>]
               /\ aresult' = [aresult EXCEPT ![a] = "none"]
          ELSE /\ adoc' = [adoc EXCEPT ![a] = <<>>]
               /\ aresult' = [aresult EXCEPT ![a] = "error"]
               /\ UNCHANGED apc
  /\ UNCHANGED <<config, engine>>
  /\ UNCHANGED adminvars

\* the rest of the call: change the loaded document, then UpdateConfig
AdminSave(a) ==
  /\ apc[a] = "loaded"
  /\ apc' = [apc EXCEPT ![a] = "idle"]
  /\ \E saveOk \in BOOLEAN :
       \E r \in {Resulting(areq[a], adoc[a][1])} :
         \E u \in {UpdateConfig(r.doc, saveOk)} :
           /\ saveOk \/ (nfail < MaxFail /\ ~r.err /\ validateConfig(r.doc) = <<>>)
           /\ nfail' = IF saveOk THEN nfail ELSE nfail + 1
           /\ adoc' = [adoc EXCEPT ![a] = IF r.err THEN <<>> ELSE <<r.doc>>]
           /\ aresult' = [aresult EXCEPT ![a] = IF r.err THEN "error" ELSE u.res]
           /\ config' = IF ~r.err /\ u.saved THEN r.doc ELSE config
           /\ engine' = IF ~r.err /\ u.reload THEN StartupCycle(r.doc).e ELSE engine
  /\ UNCHANGED <<areq, ncalls>>
  /\ UNCHANGED adminvars

InitAdmin ==
  /\ config \in { BucardoConfig(TwoDbs, <<SyncA(<<"t1", "t2">>)>>, "VERBOSE"),
                   BucardoConfig(TwoDbs, <<>>, ""),
                   BucardoConfig(TwoDbs, <<SyncA(<<"t1">>), SyncA(<<"t2">>)>>,
                                 "VERBOSE") }
  /\ engine \in {e \in EngineStates : e.dbs \in {{}, {"db1", "db2"}}}
  /\ Idle /\ BroadcasterIdle /\ PureIdle /\ AdminIdle

NextAdmin ==
  \E a \in Admins :
    \/ \E req \in Requests : AdminLoad(a, req)
    \/ AdminSave(a)

SpecAdmin == InitAdmin /\ [][NextAdmin]_vars

(***************************************************************************)
(* CLIExecutor.StopBucardo, one call: the stop command, then the wait for  *)
(* the pid file to go.  arg is what the call looks at (the pid file and    *)
(* the context), ret is the call's position and result.                    *)
(***************************************************************************)
\* a StopBucardo that returns the stop command's error without waiting
AfterStopCommandReturnError(ok) ==
  IF ok THEN [pc |-> "wait", err |-> "none"] ELSE [pc |-> "done", err |-> "command"]

\* StopBucardo: the step after the stop command, whatever its result
AfterStopCommand(ok) == [pc |-> "wait", err |-> "none"]

\* StopBucardo: one pass of the wait loop
PollPidFile(pid, ctxDone) ==
  IF ctxDone THEN "cancelled" ELSE IF ~pid THEN "nil" ELSE "sleep"

stopvars == <<config, engine, rpc, cfg, ops, result, pred, lastResult, nfail,
              cycles, mainpc, exitStatus, monvars, bvars, avars>>

\* runBucardoCommand(ctx, "stop"): a failure is only logged
RunStopCommand ==
  /\ ret.pc = "command"
  /\ \E ok \in BOOLEAN :
       ret' = [ret EXCEPT !.pc = AfterStopCommand(ok).pc,
                          !.err = AfterStopCommand(ok).err,
                          !.cmdOk = ok]
  /\ UNCHANGED arg
  /\ UNCHANGED stopvars

\* the loop body while the deadline is ahead
PollStep ==
  /\ ret.pc = "wait"
  /\ ret.polls < ShutdownPolls
  /\ \E r \in {PollPidFile(arg.pid, arg.ctxDone)} :
       ret' = IF r = "sleep"
                THEN [ret EXCEPT !.polls = ret.polls + 1]
                ELSE [ret EXCEPT !.pc = "done", !.err = r]
  /\ UNCHANGED arg
  /\ UNCHANGED stopvars

\* the loop condition fails: the deadline has passed
DeadlinePassed ==
  /\ ret.pc = "wait"
  /\ ret.polls = ShutdownPolls
  /\ ret' = [ret EXCEPT !.pc = "done", !.err = "timeout"]
  /\ UNCHANGED arg
  /\ UNCHANGED stopvars

\* the engine removes its pid file when it has shut down
PidFileRemoved ==
  /\ ret.pc # "done"
  /\ arg.pid
  /\ arg' = [arg EXCEPT !.pid = FALSE]
  /\ UNCHANGED ret
  /\ UNCHANGED stopvars

\* the caller's context is cancelled
ContextCancelled ==
  /\ ret.pc # "done"
  /\ ~arg.ctxDone
  /\ arg' = [arg EXCEPT !.ctxDone = TRUE]
  /\ UNCHANGED ret
  /\ UNCHANGED stopvars

InitStop ==
  /\ arg \in [pid : BOOLEAN, ctxDone : BOOLEAN]
  /\ ret = [pc |-> "command", cmdOk |-> TRUE, polls |-> 0, err |-> "none"]
  /\ Idle /\ BroadcasterIdle /\ AdminIdle
  /\ config = NoConfig
  /\ engine = Engine({}, NoSyncs, NoSyncs, NoSyncs, FALSE)

StopBucardoSteps == RunStopCommand \/ PollStep \/ DeadlinePassed

NextStop == StopBucardoSteps \/ PidFileRemoved \/ ContextCancelled

\* the goroutine that called StopBucardo keeps running its own steps
SpecStop == InitStop /\ [][NextStop]_vars /\ WF_vars(StopBucardoSteps)

\* the stops of the whole engine among the monitor's commands
WholeStops(o) == Cardinality({i \in DOMAIN o : o[i].k = "stop"})

\* C11: when the awaited set becomes empty and some declared sync is not
\* run-once, the monitor issues no engine stop and goes on as the steady
\* monitor with the process running; and in the steady monitor an engine stop,
\* a process exit or a return happens only when cancellation (a signal) was
\* requested, whatever lines are logged and whether or not the deadline
\* elapsed.
C11_SteadyStateOnlyEndsOnCancel ==
  [][/\ (/\ pending # {} /\ pending' = {}
         /\ \E s \in Range(config.Syncs) : s.ExitOnComplete # <<TRUE>>)
          => /\ mpc' = "steady" /\ exitStatus' = -1
             /\ WholeStops(mops') = 0
     /\ (/\ mpc = "steady"
         /\ \/ WholeStops(mops') # WholeStops(mops)
            \/ exitStatus' # exitStatus
            \/ mpc' # "steady")
          => cancelled]_vars

C11_Witness ==
  /\ mpc = "steady" /\ watched # {} /\ pending = {}
  /\ timer = "fired" /\ Alive /\ ~cancelled
  /\ WholeStops(mops) = 0
  /\ Len(published) = 3 /\ published[3].normal /\ published[3].kid \in watched

\* C12: once cancellation was requested while MonitorSyncs still awaited
\* run-once syncs, the monitor has invoked the stop of the whole engine by the
\* time it has returned or the process has ended, whichever of the ready cases
\* of its loop was taken.
C12_CancelledWatchStopsBeforeReturn ==
  (/\ cancelled /\ pending # {}
   /\ mpc \in {"returned", "exited"}) => WholeStops(mops) >= 1

\* C13: while run-once syncs are still awaited and no cancellation was
\* requested, the monitor has not returned and the process has not ended with
\* status 0, also after the log reader ended and its channel was closed.
C13_ReaderEndKeepsWatching ==
  (pending # {} /\ ~cancelled) => (mpc # "returned" /\ exitStatus # 0)

\* the callers that are inside a reconciliation cycle
Cycling == {p \in Procs : rpc[p] # "idle"}

\* C14: at no time are two reconciliation cycles, the startup cycle of
\* Service.Run and the cycles of restart requests, in progress against the
\* engine together.
C14_NoTwoCyclesTogether == Cardinality(Cycling) <= 1

\* C15: a call of Write is always possible and completes in one step, whatever
\* the fill level of the channel and the state of the clients: it returns
\* (len(p), nil), having put a copy of p at the end of the channel when there
\* was room and having dropped it, the channel unchanged, when it was full.
C15_WriteNeverBlocks ==
  /\ [](nwrites < MaxWrites => \A p \in Msgs : ENABLED Write(p))
  /\ [][nwrites' # nwrites =>
         /\ wstate' = "returned"
         /\ wret' = [n |-> Len(lastWrite'.p), err |-> "nil"]
         /\ IF Len(broadcast) < BroadcastCap
            THEN /\ lastWrite'.out = "sent"
                 /\ broadcast' = Append(broadcast, lastWrite'.p)
            ELSE /\ lastWrite'.out = "dropped"
                 /\ broadcast' = broadcast]_vars

C15_Witness ==
  /\ wstate = "returned" /\ lastWrite.out = "dropped"
  /\ wret = [n |-> Len(lastWrite.p), err |-> "nil"]
  /\ Len(broadcast) = BroadcastCap
  /\ bpc = "range" /\ mutex = "start"
  /\ \E c \in todo : conn[c] = "stalled"

\* a step in which the monitor reads the next line of the log stream
ReadsLine == lineq # <<>> /\ lineq' = Tail(lineq)

\* C16: every line the monitor reads, in MonitorSyncs and in the steady
\* monitor, with or without a completion marker, is handed to the logger as it
\* was read and after the lines read before it; nothing else is published.
C16_EveryLineReadIsPublishedInOrder ==
  [][/\ ReadsLine => published' = Append(published, Head(lineq))
     /\ published' # published => ReadsLine]_vars

C16_Witness ==
  /\ mpc = "steady" /\ lastEvent = "line"
  /\ Len(published) = 3 /\ lineq = <<>>
  /\ ~published[1].normal /\ published[2].normal /\ ~published[3].normal
  /\ published[2].kid \in watched

\* the role-annotated participants of a source/target sync, as a set
RoleSet(sync) == Range(DbStrings(sync))

\* C17: the names computed for one sync in two cycles are bg_<sync name> when
\* the sync is bidirectional; for two source/target forms they are equal when
\* the sets of role-annotated participants are equal (whatever the order and
\* the repetitions in the lists) and different when the sets differ.
C17_NameDependsOnMemberSet ==
  Len(ret) = 2 =>
    /\ \A i \in 1..2 :
         Len(arg[i].Bidirectional) > 0
           => ret[i] = [kind |-> "bg", sync |-> arg[i].Name, hash |-> <<>>]
    /\ (Len(arg[1].Bidirectional) = 0 /\ Len(arg[2].Bidirectional) = 0)
         => (ret[1] = ret[2] <=> RoleSet(arg[1]) = RoleSet(arg[2]))

\* a sync that names both membership forms, both table selections, or no
\* table selection
BothForms(sync) ==
  Len(sync.Sources) > 0 /\ Len(sync.Targets) > 0 /\ Len(sync.Bidirectional) > 0

BothSelections(sync) == sync.Herd # "" /\ sync.Tables # <<>>

NoSelection(sync) == sync.Herd = "" /\ sync.Tables = <<>>

\* C18: for a DesiredState with a named sync that populates both membership
\* forms, both table selections or no table selection (bidirectional or not),
\* validateConfig returns at least one error.
C18_ExactlyOneOfEachIsValidated ==
  Len(ret) = 1 =>
    \A i \in DOMAIN arg[1].Syncs :
      (/\ arg[1].Syncs[i].Name # ""
       /\ \/ BothForms(arg[1].Syncs[i])
          \/ BothSelections(arg[1].Syncs[i])
          \/ NoSelection(arg[1].Syncs[i]))
        => ret[1] # <<>>

\* a bidirectional sync with one participant and a static conflict strategy
OneSidedStatic(sync) ==
  /\ Len(sync.Bidirectional) = 1
  /\ sync.ConflictStrategy \in {"bucardo_source", "bucardo_target"}

\* validateConfig returned two different errors at least, and no cycle went
\* past validation
RefusedTwice ==
  /\ Cardinality(Range(validateConfig(config))) >= 2
  /\ \A p \in Procs :
       ops[p] = <<>> /\ rpc[p] = "idle" /\ result[p] \in {"none", "error"}

\* C19 as stated: once a cycle was begun on a DesiredState that holds a
\* bidirectional sync with one participant and a static conflict strategy,
\* validateConfig returned at least two distinct errors and no cycle attempts
\* reconciliation.
C19_OneSidedStaticGivesTwoErrors ==
  (/\ cycles > 0
   /\ \E i \in DOMAIN config.Syncs : OneSidedStatic(config.Syncs[i])) => RefusedTwice

\* C19, for a sync that has a name: once a cycle was begun on a DesiredState
\* that holds a named bidirectional sync with one participant and a static
\* conflict strategy, validateConfig returned at least two distinct errors and
\* no cycle attempts reconciliation.
C19_NamedOneSidedStaticGivesTwoErrors ==
  (/\ cycles > 0
   /\ \E i \in DOMAIN config.Syncs :
        config.Syncs[i].Name # "" /\ OneSidedStatic(config.Syncs[i])) => RefusedTwice

C19_Witness ==
  /\ \E i \in DOMAIN config.Syncs :
       /\ config.Syncs[i].Name # "" /\ OneSidedStatic(config.Syncs[i])
       /\ config.Syncs[i].ConflictStrategy = "bucardo_target"
  /\ cycles = 1 /\ result["main"] = "error" /\ ops["main"] = <<>>
  /\ mainpc = "exited" /\ exitStatus = 1

\* a step in which caller a ends a call that produced a document
EndsCall(a) == apc[a] = "loaded" /\ apc'[a] = "idle" /\ adoc'[a] # <<>>

\* C20: a call of UpdateConfig, AddSync, UpdateSync or DeleteSync whose
\* resulting document fails validation returns an error and leaves the
\* persisted DesiredState as it was; and whenever the persisted DesiredState
\* changes, the new one passes validation as a whole.
C20_InvalidDocumentIsNotSaved ==
  [][/\ \A a \in Admins :
          (EndsCall(a) /\ validateConfig(adoc'[a][1]) # <<>>)
            => (config' = config /\ aresult'[a] = "error")
     /\ config' # config => validateConfig(config') = <<>>]_vars

C20_Witness ==
  \E a \in Admins :
    /\ apc[a] = "idle" /\ aresult[a] = "error"
    /\ areq[a].op = "AddSync" /\ areq[a].sync.Name = ""
    /\ adoc[a] # <<>> /\ validateConfig(adoc[a][1]) # <<>>
    /\ Len(adoc[a][1].Syncs) = 3
    /\ Len(config.Syncs) = 2 /\ validateConfig(config) = <<>>

\* a step of an administrative call
AdminStep == \E a \in Admins : apc'[a] # apc[a] \/ aresult'[a] # aresult[a]

\* C21: a step of UpdateConfig, AddSync, UpdateSync or DeleteSync, also one
\* that changes the persisted DesiredState, issues no engine command and leaves
\* the engine's databases, syncs, groups and run state as they were.
C21_AdminChangesOnlyDesiredState ==
  [][(AdminStep \/ config' # config)
       => (engine' = engine /\ ops' = ops /\ mops' = mops)]_vars

C21_Witness ==
  /\ \E a \in Admins : areq[a] # <<>> /\ areq[a].op = "DeleteSync"
                        /\ apc[a] = "idle" /\ aresult[a] = "ok"
  /\ config.Syncs = <<>>
  /\ "A" \in DOMAIN engine.syncs /\ engine.running

\* the commands a step adds to the cycle of caller p
Added(p) ==
  IF Len(ops'[p]) > Len(ops[p]) THEN (Len(ops[p]) + 1)..Len(ops'[p]) ELSE {}

\* C22: when a stop issued by a cycle (before the changes, or before the
\* start) leaves the engine running, so that StopBucardo reports that the
\* engine did not stop within its wait, the cycle issues nothing more and
\* returns an error.
C22_FailedStopFailsCycle ==
  [][\A p \in Procs : \A i \in Added(p) :
       (/\ ops'[p][i].k = "stop" /\ ~ops'[p][i].ok
        /\ i = Len(ops[p]) + 1 /\ engine.running)
         => (i = Len(ops'[p]) /\ rpc'[p] = "idle" /\ result'[p] = "error")]_vars

StopReturned == ret.pc = "done"

StopAttempted ==
  \/ \E p \in Procs : \E i \in DOMAIN ops[p] : ops[p][i].k = "stop"
  \/ WholeStops(mops) > 0

\* C24: when the process has ended with a non-zero exit status, a stop of the
\* engine was issued earlier in the run.
C24_NonZeroExitAfterStop ==
  (exitStatus # -1 /\ exitStatus # 0) => StopAttempted

\* C25: when the engine reports for a declared sync a table list that differs
\* from the desired one, no add of that sync was issued before, and a cycle
\* that succeeds has then deleted the sync and its table group and, after that
\* deletion, created the membership group and added the sync with the desired
\* table list.
C25_RecreateDeletesBeforeAdding ==
  \A p \in Procs : \A j \in DOMAIN ops[p] :
    LET o == ops[p] IN
    (/\ o[j].ph = "syncs" /\ o[j].k = "list relgroup" /\ o[j].ok
     /\ o[j].out # ConfigTables(SyncNamed(cfg[p], o[j - 1].n)))
      => LET name == o[j - 1].n
             sync == SyncNamed(cfg[p], name)
         IN /\ \A i \in 1..j : ~(o[i].k = "add sync" /\ o[i].n = name)
            /\ (Finished(p) /\ result[p] = "ok")
                 => \E d \in (j + 1)..Len(o) : \E a \in (d + 1)..Len(o) :
                      /\ o[d].k \in {"del sync", "sql del"} /\ o[d].n = name /\ o[d].ok
                      /\ \A i \in (j + 1)..d : o[i].k # "add sync"
                      /\ \E r \in d..(a - 1) : o[r].k \in {"sql del", "del relgroup"}
                      /\ \E g \in (d + 1)..(a - 1) :
                           o[g].k = "add dbgroup" /\ o[g].n = DbgroupName(sync)
                      /\ o[a].k = "add sync" /\ o[a].n = name /\ o[a].ok
                      /\ o[a].a.tables = sync.Tables

\* the commands that fill a herd
HerdCommands == {"del herd", "add herd", "add all tables"}

\* C26: for a declared sync the engine does not hold, the cycle issues the
\* delete of the membership group of the computed name, then the add of that
\* group with the role-annotated members, then (after the herd's commands
\* only) the add of the sync with dbs= that group, the declared onetimecopy,
\* the declared herd or else the declared tables, the run-once flags exactly
\* when ExitOnComplete is true, and the declared strictness and strategy.
C26_AbsentSyncIsCreatedInOrder ==
  \A p \in Procs : \A j \in DOMAIN ops[p] :
    LET o == ops[p] IN
    (o[j].ph = "syncs" /\ o[j].k = "list sync" /\ o[j].f /\ ~o[j].ok)
      => LET sync == SyncNamed(cfg[p], o[j].n)
         IN /\ Len(o) >= j + 3
            /\ o[j + 1].k = "del dbgroup" /\ o[j + 1].n = DbgroupName(sync)
            /\ o[j + 2].k = "add dbgroup" /\ o[j + 2].n = DbgroupName(sync)
            /\ o[j + 2].a = DbgroupMembers(sync)
            /\ \E a \in (j + 3)..Len(o) :
                 /\ \A i \in (j + 3)..(a - 1) : o[i].k \in HerdCommands
                 /\ o[a].k = "add sync" /\ o[a].n = sync.Name
                 /\ o[a].a.dbs = DbgroupName(sync)
                 /\ o[a].a.onetimecopy = sync.Onetimecopy
                 /\ o[a].a.herd = sync.Herd
                 /\ sync.Herd = "" => o[a].a.tables = sync.Tables
                 /\ o[a].a.runonce <=> sync.ExitOnComplete = <<TRUE>>
                 /\ o[a].a.strict = sync.StrictChecking
                 /\ o[a].a.strategy = sync.ConflictStrategy

\* some run-once sync of the configuration sets a completion timeout
TimeoutConfigured(c) ==
  \E i \in DOMAIN c.Syncs :
    c.Syncs[i].ExitOnComplete = <<TRUE>> /\ c.Syncs[i].ExitOnCompleteTimeout # <<>>

\* C27: the monitor starts awaiting exactly the run-once syncs, and it starts
\* without a deadline exactly when no run-once sync configured a timeout.
C27_MonitorStartsWithAllRunOnceAndDeadline ==
  [][(mpc = "none" /\ mpc' \in {"watching", "steady"})
       => /\ pending' = RunOnceSyncs(config)
          /\ timer' = "none" <=> ~TimeoutConfigured(config)]_vars

\* the monitor takes a line while it awaits run-once syncs
TakesLine == mpc = "watching" /\ lineq # <<>> /\ lineq' = Tail(lineq)

\* the syncs the step issues a stop for, and how many stops of single syncs
SyncStops == {i \in (Len(mops) + 1)..Len(mops') : mops'[i].k = "stop sync"}

\* C28: when the monitor takes a line, the pending syncs it drops are exactly
\* those named as the worker of a line carrying the normal-exit marker; one
\* stop is issued for each of them and for no other sync; the sync is dropped
\* whether or not that stop succeeds, and while a sync remains pending the
\* monitor keeps watching; a line without the marker drops nothing and stops
\* nothing.
C28_MarkerLineCompletesNamedSyncs ==
  [][TakesLine =>
       LET line == Head(lineq)
           named == IF line.normal THEN pending \cap {line.kid} ELSE {}
       IN /\ pending' = pending \ named
          /\ {mops'[i].n : i \in SyncStops} = named
          /\ Cardinality(SyncStops) = Cardinality(named)
          /\ pending' # {} => (mpc' = "watching" /\ exitStatus' = -1)]_vars

C28_Witness ==
  /\ mpc = "watching" /\ pending = {"B"} /\ watched = {"A", "B"}
  /\ \E i \in DOMAIN mops : mops[i].k = "stop sync" /\ mops[i].n = "A" /\ ~mops[i].ok
  /\ exitStatus = -1

C30_UpdatedSyncReferencesCurrentGroup ==
  [][\A p \in Procs :
       (rpc[p] # "idle" /\ rpc'[p] = "idle" /\ result'[p] = "ok" /\ AllGood(ops'[p]))
         => \A i \in DOMAIN ops'[p] :
              (ops'[p][i].k = "update sync" /\ ops'[p][i].ok)
                => /\ ops'[p][i].n \in DOMAIN engine'.syncs
                   /\ engine'.syncs[ops'[p][i].n].dbs
                        = DbgroupName(SyncNamed(cfg[p], ops'[p][i].n))]_vars

\* C31: when the listing of an existing declared sync's tables fails, the next
\* command of the cycle is the non-destructive update of that sync: the sync
\* is neither deleted nor added again.
C31_FailedTableFetchMeansUnchanged ==
  \A p \in Procs : \A j \in DOMAIN ops[p] :
    LET o == ops[p] IN
    (o[j].ph = "syncs" /\ o[j].k = "list relgroup" /\ ~o[j].ok)
      => /\ j < Len(o)
         /\ o[j + 1].k = "update sync" /\ o[j + 1].n = o[j - 1].n
         /\ \A i \in (j + 1)..Len(o) :
              o[i].n = o[j - 1].n => o[i].k \notin {"del sync", "sql del", "add sync"}

\* C32: when the command that checks whether a declared sync exists fails on
\* its own, it is the last command of the cycle and the cycle returns an
\* error.
C32_FailedExistenceCheckAborts ==
  \A p \in Procs : \A j \in DOMAIN ops[p] :
    LET o == ops[p] IN
    (o[j].ph = "syncs" /\ o[j].k = "list sync" /\ ~o[j].f)
      => (j = Len(o) /\ Finished(p) /\ result[p] = "error")

\* C33: an existing declared sync whose tables were listed is deleted for
\* recreation exactly when the set of its trimmed desired tables differs from
\* the set of tables the engine listed, whatever the order, the padding and the
\* repetitions in the desired list.
C33_RecreationComparesSets ==
  \A p \in Procs : \A j \in DOMAIN ops[p] :
    LET o == ops[p] IN
    (o[j].ph = "syncs" /\ o[j].k = "list relgroup" /\ o[j].ok)
      => LET desired == {TrimSpace(t) : t \in Range(SyncNamed(cfg[p], o[j - 1].n).Tables)}
         IN (j < Len(o) /\ o[j + 1].k = "del sync" /\ o[j + 1].n = o[j - 1].n)
              <=> Range(o[j].out) # desired

\* the commands of the database and sync reconciliation whose failure is
\* returned as the cycle's error
Reconciling == {"list dbs", "add db", "update db", "add sync", "update sync"}

\* C34: the first command of every cycle is the engine stop; the engine start
\* is the last command of its cycle and is issued only when every declared
\* database and every declared sync has been added or updated successfully and
\* no command of the database and sync reconciliation whose failure is returned
\* has failed; so a cycle in which such a command failed issues no start.
C34_StopFirstStartLast ==
  \A p \in Procs :
    LET o == ops[p] IN
    /\ o # <<>> => o[1].k = "stop"
    /\ \A i \in DOMAIN o :
         o[i].k = "start"
           => /\ i = Len(o)
              /\ \A d \in Range(cfg[p].Databases) : \E j \in 1..(i - 1) :
                   /\ o[j].k \in {"add db", "update db"}
                   /\ o[j].n = DbName(d.ID) /\ o[j].ok
              /\ \A s \in Range(cfg[p].Syncs) : \E j \in 1..(i - 1) :
                   /\ o[j].k \in {"add sync", "update sync"}
                   /\ o[j].n = s.Name /\ o[j].ok
              /\ \A j \in 1..(i - 1) :
                   (o[j].ph \in {"dbs", "syncs"} /\ o[j].k \in Reconciling) => o[j].ok

C34_Witness ==
  \E p \in Procs :
    LET o == ops[p] IN
    /\ Finished(p) /\ result[p] = "error"
    /\ o # <<>> /\ o[1].k = "stop"
    /\ o[Len(o)].k = "update sync" /\ ~o[Len(o)].ok
    /\ \A i \in DOMAIN o : o[i].k # "start"

\* C35: for an accepted DesiredState the sync reconciliation ends by returning
\* success or an error: no cycle ends in a panic.
C35_AddSyncsNeverPanics ==
  \A p \in Procs :
    validateConfig(cfg[p]) = <<>> => (result[p] # "panic" /\ exitStatus # 2)

\* C36: when two AddSync calls have both returned success, the persisted
\* DesiredState holds the sync of each of them.
C36_BothAddedSyncsArePersisted ==
  (\A a \in Admins :
     /\ apc[a] = "idle" /\ aresult[a] = "ok"
     /\ areq[a] # <<>> /\ areq[a].op = "AddSync")
    => \A a \in Admins :
         \E i \in DOMAIN config.Syncs : config.Syncs[i].Name = areq[a].sync.Name

\* the names of the document's syncs are non-empty and pairwise different
UniqueNames(doc) ==
  \A i, j \in DOMAIN doc.Syncs :
    doc.Syncs[i].Name # "" /\ (i # j => doc.Syncs[i].Name # doc.Syncs[j].Name)

\* the document holds a sync of that name
HasSync(doc, name) == \E i \in DOMAIN doc.Syncs : doc.Syncs[i].Name = name

\* C37: every DesiredState that UpdateConfig, AddSync, UpdateSync or
\* DeleteSync saves passes validateConfig and has unique, non-empty sync
\* names; an AddSync of a name the loaded DesiredState holds, and an UpdateSync
\* or DeleteSync of a name it does not hold, return an error and save nothing.
C37_SavedStatesAreValid ==
  [][/\ config' # config => (validateConfig(config') = <<>> /\ UniqueNames(config'))
     /\ \A a \in Admins :
          (apc[a] = "loaded" /\ apc'[a] = "idle")
            => LET req == areq[a]
                   loaded == adoc[a][1]
               IN /\ (req.op = "AddSync" /\ HasSync(loaded, req.sync.Name))
                       => (aresult'[a] = "error" /\ config' = config)
                  /\ (req.op \in {"UpdateSync", "DeleteSync"}
                      /\ ~HasSync(loaded, req.name))
                       => (aresult'[a] = "error" /\ config' = config)]_vars

C37_Witness ==
  \E a \in Admins : \E b \in Admins \ {a} :
    /\ apc[a] = "idle" /\ aresult[a] = "error"
    /\ areq[a] # <<>> /\ areq[a].op = "DeleteSync" /\ areq[a].name = "Z"
    /\ apc[b] = "idle" /\ aresult[b] = "ok"
    /\ areq[b] # <<>> /\ areq[b].op = "AddSync"
    /\ HasSync(config, areq[b].sync.Name)
    /\ validateConfig(config) = <<>> /\ UniqueNames(config)

\* the stops of the single sync n among the monitor's commands
StopsOf(n) == Cardinality({i \in DOMAIN mops : mops[i].k = "stop sync" /\ mops[i].n = n})

\* C38: once the monitor runs, the pending set is a subset of the run-once
\* names it started with and no step adds a name to it; a single sync is
\* stopped only if it is a run-once sync no longer pending, and at most once.
C38_PendingOnlyShrinks ==
  /\ [](mpc # "none" =>
          /\ pending \subseteq watched
          /\ mpc = "watching" => watched = RunOnceSyncs(config)
          /\ \A i \in DOMAIN mops :
               mops[i].k = "stop sync" =>
                 (mops[i].n \in watched \ pending /\ StopsOf(mops[i].n) = 1))
  /\ [][mpc # "none" => (pending' \subseteq pending /\ watched' = watched)]_vars

C38_Witness ==
  /\ mpc = "watching" /\ watched = {"A", "B"} /\ pending = {"B"}
  /\ Cardinality({i \in DOMAIN published :
                    published[i].normal /\ published[i].kid = "A"}) = 2
  /\ StopsOf("A") = 1

\* C39: the monitor stops the whole engine at most once, and a step that
\* stops it while a run-once sync is still pending is the deadline case with
\* the deadline elapsed or happens after cancellation was requested.
C39_EngineStoppedOnceAndOnlyWhenDue ==
  /\ [](WholeStops(mops) <= 1)
  /\ [][(WholeStops(mops') > WholeStops(mops) /\ pending' # {})
          => (timer = "fired" \/ cancelled)]_vars

C39_Witness ==
  /\ mpc = "returned" /\ watched # {} /\ pending = {} /\ ~allRunOnce
  /\ cancelled /\ WholeStops(mops) = 1
  /\ \E i \in DOMAIN mops : mops[i].k = "stop sync"

\* C40: the broadcast loop ranges over the registry only while it holds the
\* mutex, and what it still has to visit is registered; while the loop holds
\* the mutex only the loop changes the registry; and every change of the
\* registry is the registration of a newly upgraded connection or the removal
\* of a connection that is closed with it (by its read goroutine when the
\* read fails, or by the loop when the write fails).
C40_RegistryGuardedByMutex ==
  /\ [](bpc = "range" => (mutex = "start" /\ todo \subseteq clients))
  /\ [][clients' # clients =>
          /\ mutex = "start" => (bpc = "range" /\ todo' # todo)
          /\ \E c \in Conns :
               \/ /\ clients' = clients \cup {c}
                  /\ conn[c] = "none" /\ conn'[c] = "open"
               \/ /\ clients' = clients \ {c}
                  /\ conn'[c] = "closed"]_vars

C40_Witness ==
  \E c \in Conns :
    /\ mutex = "start" /\ bpc = "range"
    /\ conn[c] = "closed" /\ c \notin clients /\ c \in readers

=============================================================================
